---- MODULE Spec2Model ----
(***************************************************************************)
(* Record-management core of perpetualx: the Child, Sponsor,               *)
(* SponsorDeparture, ChildSponsorship and Policy tables and the request    *)
(* handlers (Django views) that read and write them.                       *)
(*                                                                         *)
(* Requests run one after another.  A handler is one action: it maps the   *)
(* committed tables before the request to the committed tables after it    *)
(* and produces the response.  Handlers decorated with @transaction.atomic *)
(* run their writes on a working copy; an exception that leaves the block  *)
(* discards the working copy (Atomic), a normal exit commits it.           *)
(***************************************************************************)
EXTENDS Integers, Sequences, FiniteSets, TLC

\* ------------------------------------------------------------------ bounds
MaxChildId       == 1
MaxSponsorId     == 1
MaxSponsorshipId == 2
MaxDepartureId   == 2
MaxPolicyId      == 1
MaxRows          == 1
MaxListed        == 52
MaxImported      == 2
MaxImportRows    == 2
MaxPictureId     == 2
MaxProgressId    == 2
MaxUploads       == 2
MaxContacts      == 3
MaxGated         == 2
MaxInflight      == 2

\* ------------------------------------------------------------ input values
None   == "None"
YesNo  == {"Yes", "No"}
Names  == {"Ann"}
FirstNames == {"Amy"}
LastNames  == {"Lee"}
Methods == {"GET", "POST"}
SponsorshipTypes == {"Full"}
StartDates       == {"2024-01-01"}
DepartureDates   == {"2024-03-01", "2024-09-01"}
DepartureReasons == {"relocated", "funding"}
Contents         == {"v1", "v2"}
Users            == {"alice", "bob"}
Pictures         == {"a.jpg", "b.png"}

\* The days of the model, in order, and the year of each.
Calendar == <<"1899-12-31", "1900-01-01", "2015-06-01", "2024-12-31", "2025-01-01",
              "2025-06-01">>
StartDay == "2024-12-31"

\* The cells a DateField, an IntegerField and a DecimalField can store
\* (to_python accepts them); every other cell raises on the INSERT.
DateCells    == {Calendar[i] : i \in DOMAIN Calendar}
IntegerCells == {"95", "2012", "2013", "2020", "2024", "2025", "2026"}
DecimalCells == IntegerCells \cup {"30.5"}

\* date.year, the place of a day in the calendar, and int() of a cell.
Year(day) ==
    CASE day = "1899-12-31" -> 1899 [] day = "1900-01-01" -> 1900
      [] day = "2015-06-01" -> 2015 [] day = "2024-12-31" -> 2024
      [] day = "2025-01-01" -> 2025 [] day = "2025-06-01" -> 2025
Position(day) == CHOOSE i \in DOMAIN Calendar : Calendar[i] = day
IntegerValue(cell) ==
    CASE cell = "95" -> 95 [] cell = "2012" -> 2012 [] cell = "2013" -> 2013
      [] cell = "2020" -> 2020 [] cell = "2024" -> 2024 [] cell = "2025" -> 2025
      [] cell = "2026" -> 2026

ChildIds       == 1..MaxChildId
SponsorIds     == 1..MaxSponsorId
SponsorshipIds == 1..MaxSponsorshipId
PolicyIds      == 1..MaxPolicyId

\* Exceptions a storage write can raise.  IntegrityError is the one
\* child_sponsorship catches; OperationalError stands for every other one.
Errors == {"IntegrityError", "OperationalError"}
NoFail == [step |-> 0, exc |-> "none"]

VARIABLES
    children,      \* Child table: id -> the columns of Child
    sponsors,      \* Sponsor table: id -> [is_departed]
    sponsorships,  \* ChildSponsorship table: set of rows
    departures,    \* SponsorDeparture table: set of rows
    policies,      \* Policy table: id -> [content, is_valid]
    policy_reads,  \* PolicyRead table: set of rows [id, user, policy]
    pictures,      \* ChildProfilePicture table: set of rows [id, child, picture]
    progresses,    \* ChildProgress table: set of rows [id, child]
    last_id,       \* auto-increment counter of each table
    response,      \* the last request and its outcome
    listing,       \* the page the last list request rendered
    clock,         \* the day the process started and the present day
    uploads,       \* the picture uploads in flight
    inflight,      \* the child_sponsorship requests in flight
    contacts,      \* Contact table: the messages, in the order saved
    outbox         \* the calls of send_mail, in order

vars == <<children, sponsors, sponsorships, departures, policies, policy_reads,
         pictures, progresses, last_id, response, listing, clock, uploads,
         inflight, contacts, outbox>>

\* The committed tables as one value.
DB == [children |-> children, sponsors |-> sponsors, sponsorships |-> sponsorships,
       departures |-> departures, policies |-> policies,
       policy_reads |-> policy_reads, pictures |-> pictures,
       progresses |-> progresses, last_id |-> last_id]

SetDB(d) ==
    /\ children' = d.children
    /\ pictures' = d.pictures
    /\ progresses' = d.progresses
    /\ sponsors' = d.sponsors
    /\ sponsorships' = d.sponsorships
    /\ departures' = d.departures
    /\ policies' = d.policies
    /\ policy_reads' = d.policy_reads
    /\ last_id' = d.last_id

\* The last request (view, method, ids and form values) and its outcome.
\* An id of 0 and a form of <<>> mean the request carries none.
Response(view, method, sponsor, child, policy, form, status) ==
    [view |-> view, method |-> method, sponsor |-> sponsor, child |-> child,
     policy |-> policy, form |-> form, status |-> status]

\* ------------------------------------------------------------ storage layer
\* Model.objects.create / form.save on a new instance: INSERT with the next id.
Insert(tbl, id, rec) == [i \in (DOMAIN tbl) \cup {id} |-> IF i = id THEN rec ELSE tbl[i]]

\* instance.save() on a loaded instance: UPDATE of every column of the row.
Save(tbl, id, rec) == [tbl EXCEPT ![id] = rec]

\* The states a run of writes goes through: trail[1] is the state at entry,
\* trail[k+1] the state after write k.  A failure at write k raises exc there.
AtomicNoRollback(trail, fail) ==
    IF fail.step = 0 THEN trail[Len(trail)] ELSE trail[fail.step]

\* @transaction.atomic / with transaction.atomic(): all writes or none.
Atomic(trail, fail) ==
    IF fail.step = 0 THEN trail[Len(trail)] ELSE trail[1]

\* No list request served yet.
NoListing == [number |-> 0, object_list |-> <<>>]

\* Outcome of a handler: the committed tables after it and the response kind.
\* Early is an exit taken before the handler has validated the form and
\* loaded the records the request names.
Out(d, status)   == [db |-> d, status |-> status, resolved |-> TRUE]
Early(d, status) == [db |-> d, status |-> status, resolved |-> FALSE]

\* ------------------------------------------------------------------ models
\* Child(): the field defaults of a new instance.  A nullable column starts
\* as None, a text column without a default as the empty string; the three
\* flags with a default start as "No".
ChildDefaults ==
    [full_name |-> "", preferred_name |-> None, residence |-> None, district |-> None,
     tribe |-> None, gender |-> "", date_of_birth |-> None, weight |-> None,
     height |-> None, aspiration |-> None, c_interest |-> None,
     is_child_in_school |-> "No", is_sponsored |-> "No", father_name |-> None,
     is_father_alive |-> "", father_description |-> None, mother_name |-> None,
     is_mother_alive |-> "", mother_description |-> None, guardian |-> None,
     guardian_contact |-> "+256999999999", relationship_with_guardian |-> None,
     siblings |-> None, background_info |-> None, health_status |-> None,
     responsibility |-> None, relationship_with_christ |-> None, religion |-> None,
     prayer_request |-> None, year_enrolled |-> None, is_departed |-> "No",
     staff_comment |-> None, compiled_by |-> None]

\* The columns declared without null=True.
NotNullColumns ==
    {"full_name", "gender", "is_child_in_school", "is_sponsored", "is_father_alive",
     "is_mother_alive", "year_enrolled", "is_departed"}

\* The submitted fields of a ChildForm that vary.
ChildData(full_name, date_of_birth, year_enrolled) ==
    [full_name |-> full_name, date_of_birth |-> date_of_birth,
     year_enrolled |-> year_enrolled]

\* ChildForm bound to an instance: the submitted fields replace the instance's.
\* Of the fields a valid form must carry, full_name, date_of_birth and
\* year_enrolled vary; the others are represented by one accepted value each.
ChildForm(instance, data) ==
    [instance EXCEPT !.full_name = data.full_name, !.gender = "Female",
                     !.date_of_birth = data.date_of_birth,
                     !.is_father_alive = "Yes", !.is_mother_alive = "Yes",
                     !.year_enrolled = data.year_enrolled]

\* The validators of Child.date_of_birth and Child.year_enrolled.  Their
\* limits are computed when the class body runs, at process start.
DATE_MIN == "1900-01-01"
DATE_MAX == clock.started
YEAR_MIN == 2013
YEAR_MAX == Year(clock.started)

date_of_birth_validators(value) ==
    value = None \/ (/\ Position(DATE_MIN) <= Position(value)
                     /\ Position(value) <= Position(DATE_MAX))

year_enrolled_validators(value) ==
    YEAR_MIN <= IntegerValue(value) /\ IntegerValue(value) <= YEAR_MAX

\* PolicyForm bound to an instance: it carries the content, not is_valid.
PolicyForm(instance, content) == [instance EXCEPT !.content = content]

\* Sponsor(): the field defaults of a new instance; is_departed defaults to "No".
NewSponsor == [first_name |-> None, last_name |-> None, is_departed |-> "No"]

\* SponsorForm bound to an instance: the submitted fields replace the instance's.
SponsorForm(instance, first_name, last_name) ==
    [instance EXCEPT !.first_name = first_name, !.last_name = last_name]

\* ChildSponsorship row right after objects.create(sponsor=, child=).
NewSponsorship(id, sponsor, child) ==
    [id |-> id, sponsor |-> sponsor, child |-> child,
     sponsorship_type |-> None, start_date |-> None]

\* SponsorDeparture row right after objects.create(sponsor=).
NewDeparture(id, sponsor) ==
    [id |-> id, sponsor |-> sponsor, departure_date |-> None, departure_reason |-> None]

\* Policy(): the field defaults of a new instance; is_valid starts false.
PolicyDefaults == [content |-> None, is_valid |-> FALSE]

\* A lookup that matches the sponsor's rows for any other child.
SponsorshipExistsOtherChild(d, sponsor, child) ==
    \E row \in d.sponsorships : row.sponsor = sponsor /\ row.child # child

\* ChildSponsorship.objects.filter(sponsor=, child=).exists()
SponsorshipExists(d, sponsor, child) ==
    \E row \in d.sponsorships : row.sponsor = sponsor /\ row.child = child

\* ------------------------------------------------------------ child views
register_child(d, method, form_valid, data) ==
    IF method = "POST"
    THEN IF form_valid
         THEN LET id == d.last_id.child + 1
              IN Out([d EXCEPT !.children = Insert(@, id, ChildForm(ChildDefaults, data)),
                               !.last_id.child = id], "saved")
         ELSE Early(d, "form_errors")
    ELSE Early(d, "render")

\* An update that saves the submitted fields without asking form.is_valid().
update_childSaveInvalid(d, pk, method, form_valid, data) ==
    IF pk \notin DOMAIN d.children
    THEN Early(d, "not_found_notice")
    ELSE LET child_record == d.children[pk]
         IN IF method = "POST"
            THEN Out([d EXCEPT !.children =
                         Save(@, pk, ChildForm(child_record, data))],
                     IF form_valid THEN "redirect_success" ELSE "form_errors")
            ELSE Early(d, "render")

update_child(d, pk, method, form_valid, data) ==
    IF pk \notin DOMAIN d.children
    THEN Early(d, "not_found_notice")
    ELSE LET child_record == d.children[pk]
         IN IF method = "POST"
            THEN IF form_valid
                 THEN Out([d EXCEPT !.children =
                              Save(@, pk, ChildForm(child_record, data))],
                          "redirect_success")
                 ELSE Early(d, "form_errors")
            ELSE Early(d, "render")

\* A mapping that takes residence and tribe from each other's column.
RowChildSwapped(row) ==
    [full_name |-> row[1], preferred_name |-> row[2], residence |-> row[4],
     district |-> ChildDefaults.district, tribe |-> row[3], gender |-> row[5],
     date_of_birth |-> row[6], weight |-> row[7], height |-> row[8],
     aspiration |-> ChildDefaults.aspiration, c_interest |-> row[9],
     is_child_in_school |-> row[10], is_sponsored |-> row[11], father_name |-> row[12],
     is_father_alive |-> row[13], father_description |-> row[14], mother_name |-> row[15],
     is_mother_alive |-> row[16], mother_description |-> row[17], guardian |-> row[18],
     guardian_contact |-> row[19], relationship_with_guardian |-> row[20],
     siblings |-> row[21], background_info |-> row[22], health_status |-> row[23],
     responsibility |-> row[24], relationship_with_christ |-> row[25],
     religion |-> row[26], prayer_request |-> row[27], year_enrolled |-> row[28],
     is_departed |-> row[29], staff_comment |-> row[30], compiled_by |-> row[31]]

\* Child.objects.create(full_name=fname, ...): the 31 cells of the row, by
\* position, as the keyword arguments of the new instance.
RowChild(row) ==
    [full_name |-> row[1], preferred_name |-> row[2], residence |-> row[3],
     district |-> ChildDefaults.district, tribe |-> row[4], gender |-> row[5],
     date_of_birth |-> row[6], weight |-> row[7], height |-> row[8],
     aspiration |-> ChildDefaults.aspiration, c_interest |-> row[9],
     is_child_in_school |-> row[10], is_sponsored |-> row[11], father_name |-> row[12],
     is_father_alive |-> row[13], father_description |-> row[14], mother_name |-> row[15],
     is_mother_alive |-> row[16], mother_description |-> row[17], guardian |-> row[18],
     guardian_contact |-> row[19], relationship_with_guardian |-> row[20],
     siblings |-> row[21], background_info |-> row[22], health_status |-> row[23],
     responsibility |-> row[24], relationship_with_christ |-> row[25],
     religion |-> row[26], prayer_request |-> row[27], year_enrolled |-> row[28],
     is_departed |-> row[29], staff_comment |-> row[30], compiled_by |-> row[31]]

\* The INSERT fails on a NULL in a column declared NOT NULL and on a value
\* the column's type cannot hold.  Choices and validators are not consulted.
Storable(obj) ==
    /\ \A column \in NotNullColumns : obj[column] # None
    /\ obj.date_of_birth \in {None} \cup DateCells
    /\ obj.weight \in {None} \cup DecimalCells
    /\ obj.height \in {None} \cup IntegerCells
    /\ obj.year_enrolled \in IntegerCells

\* The states the import loop goes through: two writes (objects.create,
\* obj.save) for every row whose first cell is not empty.  The loop ends at
\* the first row whose INSERT the storage refuses.
RECURSIVE ImportTrail(_, _)
ImportTrail(d, rows) ==
    IF rows = <<>>
    THEN <<>>
    ELSE LET row == Head(rows)
         IN IF row[1] # None
            THEN IF Storable(RowChild(row))
                 THEN LET id == d.last_id.child + 1
                          d1 == [d EXCEPT !.children = Insert(@, id, RowChild(row)),
                                          !.last_id.child = id]
                      IN <<d1, d1>> \o ImportTrail(d1, Tail(rows))
                 ELSE <<>>
            ELSE ImportTrail(d, Tail(rows))

\* The number of writes a sheet asks for.
RECURSIVE ImportWrites(_)
ImportWrites(rows) ==
    IF rows = <<>> THEN 0
    ELSE (IF Head(rows)[1] # None THEN 2 ELSE 0) + ImportWrites(Tail(rows))

\* iter_rows(min_row=2): the first row of the sheet is the header.
process_and_import_data(d, sheet) == <<d>> \o ImportTrail(d, Tail(sheet))

\* The write at which the import raises: the one the storage layer fails
\* at, or the INSERT of the first row it refuses, whichever comes first.
ImportFailure(trail, sheet, fail) ==
    LET done == Len(trail) - 1
    IN IF fail.step # 0 /\ fail.step <= done THEN fail
       ELSE IF done < ImportWrites(Tail(sheet))
            THEN [step |-> done + 1, exc |-> "IntegrityError"]
            ELSE NoFail

\* The exception of a failing row is caught inside the atomic block, but the
\* failed save has marked the transaction for rollback: nothing is committed.
import_data(d, method, form_valid, sheet, fail) ==
    IF method = "POST"
    THEN IF form_valid
         THEN LET trail   == process_and_import_data(d, sheet)
                  failure == ImportFailure(trail, sheet, fail)
              IN Out(Atomic(trail, failure),
                     IF failure.step = 0 THEN "redirect_success" ELSE "redirect_error")
         ELSE Early(d, "form_errors")
    ELSE Early(d, "render")

\* A delete that leaves the ChildProgress rows behind.
DeleteChildrenKeepProgress(d, pks) ==
    [d EXCEPT !.children = [i \in (DOMAIN @) \ pks |-> @[i]],
              !.pictures = {row \in @ : row.child \notin pks},
              !.sponsorships = {row \in @ : row.child \notin pks}]

\* Model.delete() of a set of children: the collector follows the CASCADE
\* relations of ChildProfilePicture, ChildProgress and ChildSponsorship.
DeleteChildren(d, pks) ==
    [d EXCEPT !.children = [i \in (DOMAIN @) \ pks |-> @[i]],
              !.pictures = {row \in @ : row.child \notin pks},
              !.progresses = {row \in @ : row.child \notin pks},
              !.sponsorships = {row \in @ : row.child \notin pks}]

\* A delete that answers a missing id like a deleted one.
delete_childSilent(d, pk) ==
    Out(DeleteChildren(d, {pk}), "redirect_deleted")

\* Child.objects.get(id=pk) is not guarded: a missing id raises DoesNotExist
\* out of the view.
delete_child(d, pk) ==
    IF pk \in DOMAIN d.children
    THEN Out(DeleteChildren(d, {pk}), "redirect_deleted")
    ELSE Early(d, "does_not_exist_500")

delete_excel_data(d, pk) ==
    IF pk \in DOMAIN d.children
    THEN Out(DeleteChildren(d, {pk}), "redirect_deleted")
    ELSE Early(d, "does_not_exist_500")

\* A request other than POST falls off the end of the view, which returns None.
delete_confirmation(d, method) ==
    IF method = "POST"
    THEN Out(DeleteChildren(d, DOMAIN d.children), "redirect_deleted")
    ELSE Early(d, "server_error_500")

\* update_picture up to its second lookup: the id of the child's picture row,
\* 0 when ChildProfilePicture.DoesNotExist.
existing_picture(d, child_id) ==
    IF \E row \in d.pictures : row.child = child_id
    THEN (CHOOSE row \in d.pictures : row.child = child_id).id
    ELSE 0

\* A save that inserts although the child has a picture row.
save_pictureNoUnique(d, child_id, picture, existing) ==
    IF existing # 0 /\ \E row \in d.pictures : row.id = existing
    THEN Out([d EXCEPT !.pictures =
                 {IF row.id = existing THEN [row EXCEPT !.picture = picture] ELSE row :
                     row \in @}], "redirect_success")
    ELSE LET id == IF existing # 0 THEN existing ELSE d.last_id.picture + 1
         IN Out([d EXCEPT !.pictures = @ \cup {[id |-> id, child |-> child_id,
                                                 picture |-> picture]},
                          !.last_id.picture = IF existing # 0 THEN @ ELSE id],
                "redirect_success")

\* update_picture from there on, on tables that may have changed since:
\* existing_picture.save() or new_picture.save().  child is unique (one to
\* one) and references a Child; a refused write raises IntegrityError out of
\* the view.
save_picture(d, child_id, picture, existing) ==
    IF existing # 0 /\ \E row \in d.pictures : row.id = existing
    THEN Out([d EXCEPT !.pictures =
                 {IF row.id = existing THEN [row EXCEPT !.picture = picture] ELSE row :
                     row \in @}], "redirect_success")
    ELSE IF child_id \notin DOMAIN d.children \/ \E row \in d.pictures : row.child = child_id
         THEN Out(d, "server_error_500")
         ELSE LET id == IF existing # 0 THEN existing ELSE d.last_id.picture + 1
              IN Out([d EXCEPT !.pictures = @ \cup {[id |-> id, child |-> child_id,
                                                      picture |-> picture]},
                               !.last_id.picture = IF existing # 0 THEN @ ELSE id],
                     "redirect_success")

update_picture(d, method, form_valid, child_id, picture) ==
    IF method = "POST"
    THEN IF form_valid
         THEN IF child_id \notin DOMAIN d.children
              THEN Early(d, "not_found_notice")
              ELSE save_picture(d, child_id, picture, existing_picture(d, child_id))
         ELSE Early(d, "form_invalid")
    ELSE Early(d, "render")

\* The creation of a ChildProgress row of a child: append only.
child_progress(d, method, form_valid, child_id) ==
    IF method = "POST"
    THEN IF form_valid
         THEN IF child_id \notin DOMAIN d.children
              THEN Early(d, "not_found_404")
              ELSE LET id == d.last_id.progress + 1
                   IN Out([d EXCEPT !.progresses = @ \cup {[id |-> id, child |-> child_id]},
                                    !.last_id.progress = id], "redirect_success")
         ELSE Early(d, "form_invalid")
    ELSE Early(d, "render")

\* --------------------------------------------------------- sponsor views
register_sponsor(d, method, form_valid, first_name, last_name) ==
    IF method = "POST"
    THEN IF form_valid
         THEN LET id == d.last_id.sponsor + 1
              IN Out([d EXCEPT !.sponsors =
                                  Insert(@, id, SponsorForm(NewSponsor, first_name, last_name)),
                               !.last_id.sponsor = id], "redirect_success")
         ELSE Early(d, "form_errors")
    ELSE Early(d, "render")

update_sponsor(d, pk, method, form_valid, first_name, last_name) ==
    IF pk \notin DOMAIN d.sponsors
    THEN Early(d, "not_found_notice")
    ELSE LET sponsor_record == d.sponsors[pk]
         IN IF method = "POST"
            THEN IF form_valid
                 THEN Out([d EXCEPT !.sponsors =
                              Save(@, pk, SponsorForm(sponsor_record, first_name, last_name))],
                          "redirect_success")
                 ELSE Early(d, "form_errors")
            ELSE Early(d, "render")

\* Sponsor.objects.get(id=pk) is not guarded.  The sponsor's departure and
\* sponsorship rows go with it.
delete_sponsor(d, pk) ==
    IF pk \in DOMAIN d.sponsors
    THEN Out([d EXCEPT !.sponsors = [i \in (DOMAIN @) \ {pk} |-> @[i]],
                       !.departures = {row \in @ : row.sponsor # pk},
                       !.sponsorships = {row \in @ : row.sponsor # pk}],
             "redirect_deleted")
    ELSE Early(d, "does_not_exist_500")

sponsor_departure(d, method, form_valid, sponsor_id, departure_date, departure_reason, fail) ==
    IF method = "POST"
    THEN IF form_valid
         THEN IF sponsor_id \notin DOMAIN d.sponsors
              THEN Early(d, "not_found_404")
              ELSE LET sponsor_instance == d.sponsors[sponsor_id]
                       id == d.last_id.departure + 1
                       sponsor_depart == NewDeparture(id, sponsor_id)
                       d1 == [d EXCEPT !.departures = @ \cup {sponsor_depart},
                                       !.last_id.departure = id]
                       d2 == [d1 EXCEPT !.departures = (@ \ {sponsor_depart}) \cup
                                 {[sponsor_depart EXCEPT !.departure_date = departure_date,
                                                         !.departure_reason = departure_reason]}]
                       d3 == [d2 EXCEPT !.sponsors =
                                 Save(@, sponsor_id, [sponsor_instance EXCEPT !.is_departed = "Yes"])]
                   IN Out(Atomic(<<d, d1, d2, d3>>, fail),
                          IF fail.step = 0 THEN "redirect_success" ELSE "server_error_500")
         ELSE Early(d, "form_invalid")
    ELSE Early(d, "render")

\* A reinstatement that also clears the sponsor's departure history.
reinstate_sponsorPurge(d, pk, method) ==
    IF pk \notin DOMAIN d.sponsors
    THEN Early(d, "not_found_404")
    ELSE LET sponsor == d.sponsors[pk]
         IN IF method = "POST"
            THEN Out([d EXCEPT !.sponsors = Save(@, pk, [sponsor EXCEPT !.is_departed = "No"]),
                               !.departures = {row \in @ : row.sponsor # pk}],
                     "redirect_success")
            ELSE Early(d, "render")

reinstate_sponsor(d, pk, method) ==
    IF pk \notin DOMAIN d.sponsors
    THEN Early(d, "not_found_404")
    ELSE LET sponsor == d.sponsors[pk]
         IN IF method = "POST"
            THEN Out([d EXCEPT !.sponsors = Save(@, pk, [sponsor EXCEPT !.is_departed = "No"])],
                     "redirect_success")
            ELSE Early(d, "render")

\* A creation that takes the child's is_sponsored flag for the existence of
\* a row.
child_sponsorshipByFlag(d, method, form_valid, sponsor_id, child_id, sponsorship_type, start_date, fail) ==
    IF method = "POST"
    THEN IF form_valid
         THEN IF sponsor_id \notin DOMAIN d.sponsors \/ child_id \notin DOMAIN d.children
              THEN Early(d, "not_found_404")
              ELSE IF d.children[child_id].is_sponsored = "Yes"
                   THEN Out(d, "duplicate_notice")
                   ELSE LET child_instance == d.children[child_id]
                            id == d.last_id.sponsorship + 1
                            sponsorship == [NewSponsorship(id, sponsor_id, child_id) EXCEPT
                                               !.sponsorship_type = sponsorship_type,
                                               !.start_date = start_date]
                            d2 == [d EXCEPT !.sponsorships = @ \cup {sponsorship},
                                            !.last_id.sponsorship = id]
                            d3 == [d2 EXCEPT !.children =
                                      Save(@, child_id, [child_instance EXCEPT !.is_sponsored = "Yes"])]
                        IN Out(Atomic(<<d, d2, d2, d3>>, fail),
                               CASE fail.step = 0 -> "redirect_success"
                                 [] fail.exc = "IntegrityError" -> "error_notice"
                                 [] OTHER -> "server_error_500")
         ELSE Early(d, "form_invalid")
    ELSE Early(d, "render")

\* A creation that leaves the duplicate check to the storage layer.
child_sponsorshipUnchecked(d, method, form_valid, sponsor_id, child_id, sponsorship_type, start_date, fail) ==
    IF method = "POST"
    THEN IF form_valid
         THEN IF sponsor_id \notin DOMAIN d.sponsors \/ child_id \notin DOMAIN d.children
              THEN Early(d, "not_found_404")
              ELSE LET child_instance == d.children[child_id]
                       id == d.last_id.sponsorship + 1
                       sponsorship == [NewSponsorship(id, sponsor_id, child_id) EXCEPT
                                          !.sponsorship_type = sponsorship_type,
                                          !.start_date = start_date]
                       d2 == [d EXCEPT !.sponsorships = @ \cup {sponsorship},
                                       !.last_id.sponsorship = id]
                       d3 == [d2 EXCEPT !.children =
                                 Save(@, child_id, [child_instance EXCEPT !.is_sponsored = "Yes"])]
                   IN Out(Atomic(<<d, d2, d2, d3>>, fail),
                          CASE fail.step = 0 -> "redirect_success"
                            [] fail.exc = "IntegrityError" -> "error_notice"
                            [] OTHER -> "server_error_500")
         ELSE Early(d, "form_invalid")
    ELSE Early(d, "render")

child_sponsorship(d, method, form_valid, sponsor_id, child_id, sponsorship_type, start_date, fail) ==
    IF method = "POST"
    THEN IF form_valid
         THEN IF sponsor_id \notin DOMAIN d.sponsors \/ child_id \notin DOMAIN d.children
              THEN Early(d, "not_found_404")
              ELSE IF SponsorshipExists(d, sponsor_id, child_id)
                   THEN Out(d, "duplicate_notice")
                   ELSE LET child_instance == d.children[child_id]
                            id == d.last_id.sponsorship + 1
                            sponsorship == NewSponsorship(id, sponsor_id, child_id)
                            d1 == [d EXCEPT !.sponsorships = @ \cup {sponsorship},
                                            !.last_id.sponsorship = id]
                            d2 == [d1 EXCEPT !.sponsorships = (@ \ {sponsorship}) \cup
                                      {[sponsorship EXCEPT !.sponsorship_type = sponsorship_type,
                                                           !.start_date = start_date]}]
                            d3 == [d2 EXCEPT !.children =
                                      Save(@, child_id, [child_instance EXCEPT !.is_sponsored = "Yes"])]
                        IN Out(Atomic(<<d, d1, d2, d3>>, fail),
                               CASE fail.step = 0 -> "redirect_success"
                                 [] fail.exc = "IntegrityError" -> "error_notice"
                                 [] OTHER -> "server_error_500")
         ELSE Early(d, "form_invalid")
    ELSE Early(d, "render")

\* child_sponsorship under concurrent requests.  The storage engine lets a
\* request read what other requests have committed and does not lock what it
\* has read, so between the reads of a request and its writes other requests
\* can commit.  The reads of a valid POST whose sponsor and child exist and
\* whose existence check finds no row: the request in flight keeps the Child
\* instance it has loaded.
child_sponsorship_read(d, slot, sponsor_id, child_id, sponsorship_type, start_date) ==
    [slot |-> slot, sponsor |-> sponsor_id, child |-> child_id,
     child_instance |-> d.children[child_id],
     sponsorship_type |-> sponsorship_type, start_date |-> start_date]

\* Writes that look for a row of the pair once more before they start.
child_sponsorship_writeRecheck(d, request, fail) ==
    IF SponsorshipExists(d, request.sponsor, request.child)
    THEN Out(d, "duplicate_notice")
    ELSE LET id == d.last_id.sponsorship + 1
             sponsorship == [NewSponsorship(id, request.sponsor, request.child) EXCEPT
                                !.sponsorship_type = request.sponsorship_type,
                                !.start_date = request.start_date]
             d2 == [d EXCEPT !.sponsorships = @ \cup {sponsorship},
                             !.last_id.sponsorship = id]
             d3 == [d2 EXCEPT !.children =
                       Save(@, request.child,
                            [request.child_instance EXCEPT !.is_sponsored = "Yes"])]
         IN Out(Atomic(<<d, d2, d2, d3>>, fail),
                CASE fail.step = 0 -> "redirect_success"
                  [] fail.exc = "IntegrityError" -> "error_notice"
                  [] OTHER -> "server_error_500")

\* The writes of the request in flight, on the tables as committed by now:
\* the row is created and completed, and child_instance.save() writes every
\* column of the instance loaded by the reads, with is_sponsored set.
child_sponsorship_write(d, request, fail) ==
    LET id == d.last_id.sponsorship + 1
        sponsorship == NewSponsorship(id, request.sponsor, request.child)
        d1 == [d EXCEPT !.sponsorships = @ \cup {sponsorship},
                        !.last_id.sponsorship = id]
        d2 == [d1 EXCEPT !.sponsorships = (@ \ {sponsorship}) \cup
                  {[sponsorship EXCEPT !.sponsorship_type = request.sponsorship_type,
                                       !.start_date = request.start_date]}]
        d3 == [d2 EXCEPT !.children =
                  Save(@, request.child,
                       [request.child_instance EXCEPT !.is_sponsored = "Yes"])]
    IN Out(Atomic(<<d, d1, d2, d3>>, fail),
           CASE fail.step = 0 -> "redirect_success"
             [] fail.exc = "IntegrityError" -> "error_notice"
             [] OTHER -> "server_error_500")

\* No method check: any request to the URL deletes the row.
delete_child_sponsorship(d, pk) ==
    IF \E row \in d.sponsorships : row.id = pk
    THEN Out([d EXCEPT !.sponsorships = {row \in @ : row.id # pk}], "redirect_deleted")
    ELSE Early(d, "does_not_exist_500")

\* A termination that also removes the child's link rows.
terminate_child_sponsorshipUnlink(d, pk, method) ==
    IF pk \notin DOMAIN d.children
    THEN Early(d, "not_found_404")
    ELSE LET child == d.children[pk]
         IN IF method = "POST"
            THEN Out([d EXCEPT !.children = Save(@, pk, [child EXCEPT !.is_sponsored = "No"]),
                               !.sponsorships = {row \in @ : row.child # pk}],
                     "redirect_success")
            ELSE Early(d, "render")

terminate_child_sponsorship(d, pk, method) ==
    IF pk \notin DOMAIN d.children
    THEN Early(d, "not_found_404")
    ELSE LET child == d.children[pk]
         IN IF method = "POST"
            THEN Out([d EXCEPT !.children = Save(@, pk, [child EXCEPT !.is_sponsored = "No"])],
                     "redirect_success")
            ELSE Early(d, "render")

\* ---------------------------------------------------------- policy views
create_policy(d, method, form_valid, content) ==
    IF method = "POST"
    THEN IF form_valid
         THEN LET id == d.last_id.policy + 1
              IN Out([d EXCEPT !.policies = Insert(@, id, PolicyForm(PolicyDefaults, content)),
                               !.last_id.policy = id], "redirect_success")
         ELSE Early(d, "form_errors")
    ELSE Early(d, "render")

update_policy(d, pk, method, form_valid, content) ==
    IF pk \notin DOMAIN d.policies
    THEN Early(d, "not_found_notice")
    ELSE LET policy == d.policies[pk]
         IN IF method = "POST"
            THEN IF form_valid
                 THEN Out([d EXCEPT !.policies = Save(@, pk, PolicyForm(policy, content))],
                          "redirect_success")
                 ELSE Early(d, "form_errors")
            ELSE Early(d, "render")

\* No method check; the PolicyRead rows of the policy go with it.
delete_policy(d, pk) ==
    IF pk \in DOMAIN d.policies
    THEN Out([d EXCEPT !.policies = [i \in (DOMAIN @) \ {pk} |-> @[i]],
                       !.policy_reads = {r \in @ : r.policy # pk}], "redirect_deleted")
    ELSE Early(d, "does_not_exist_500")

\* A validation that flips the flag instead of setting it.
validate_policyToggle(d, policy_id, method) ==
    IF policy_id \notin DOMAIN d.policies
    THEN Early(d, "not_found_404")
    ELSE LET policy == d.policies[policy_id]
         IN IF method = "POST"
            THEN Out([d EXCEPT !.policies =
                        Save(@, policy_id, [policy EXCEPT !.is_valid = ~policy.is_valid])],
                     "redirect_success")
            ELSE Out(d, "bad_request_400")

validate_policy(d, policy_id, method) ==
    IF policy_id \notin DOMAIN d.policies
    THEN Early(d, "not_found_404")
    ELSE LET policy == d.policies[policy_id]
         IN IF method = "POST" /\ ~policy.is_valid
            THEN Out([d EXCEPT !.policies = Save(@, policy_id, [policy EXCEPT !.is_valid = TRUE])],
                     "redirect_success")
            ELSE Out(d, "bad_request_400")

\* An acknowledgement that always inserts a row: objects.create in the place
\* of get_or_create.
read_policyAlwaysCreate(d, policy_id, method, user) ==
    IF policy_id \notin DOMAIN d.policies
    THEN Early(d, "not_found_404")
    ELSE IF method = "POST"
         THEN LET id == d.last_id.policy_read + 1
              IN Out([d EXCEPT !.policy_reads =
                                  @ \cup {[id |-> id, user |-> user, policy |-> policy_id]},
                               !.last_id.policy_read = id],
                     "redirect_recorded")
         ELSE Out(d, "redirect")

\* PolicyRead.objects.get_or_create(user=, policy=): a row is inserted only
\* when the lookup finds none; the message tells the two cases apart.
read_policy(d, policy_id, method, user) ==
    IF policy_id \notin DOMAIN d.policies
    THEN Early(d, "not_found_404")
    ELSE IF method = "POST"
         THEN LET created == ~\E r \in d.policy_reads : r.user = user /\ r.policy = policy_id
                  id == d.last_id.policy_read + 1
              IN IF created
                 THEN Out([d EXCEPT !.policy_reads =
                                       @ \cup {[id |-> id, user |-> user, policy |-> policy_id]},
                                    !.last_id.policy_read = id],
                          "redirect_recorded")
                 ELSE Out(d, "redirect_already_read")
         ELSE Out(d, "redirect")

\* ---------------------------------------------------------- contact views
\* ContactForm.save(): the message a visitor leaves, with the visitor's name
\* and email address.
NewContact(name, email) == [name |-> name, email |-> email]

\* send_mail(subject, message, from_email, [to]): one delivery attempt.  It
\* returns after delivery or raises; either way the attempt has been made.
send_mail(o, to, raises) == Append(o, [to |-> to, delivered |-> ~raises])

\* The view that forgets the saved message when the delivery raises.
contact_usForget(c, o, method, form_valid, name, email, raises) ==
    IF method = "POST" /\ form_valid /\ ~raises
    THEN [contacts |-> Append(c, NewContact(name, email)),
          outbox |-> send_mail(o, email, raises), status |-> "redirect_success"]
    ELSE IF method = "POST" /\ form_valid
    THEN [contacts |-> c, outbox |-> send_mail(o, email, raises),
          status |-> "redirect_error_notice"]
    ELSE [contacts |-> c, outbox |-> o,
          status |-> IF method = "POST" THEN "form_errors" ELSE "render"]

\* contact_us is atomic and open to anonymous visitors.  The message is saved
\* before the delivery; the except clause catches what send_mail raises, so
\* no exception leaves the atomic block and the saved message commits.  The
\* redirect follows both the success and the error notice.
contact_us(c, o, method, form_valid, name, email, raises) ==
    IF method = "POST"
    THEN IF form_valid
         THEN LET instance == NewContact(name, email)
              IN [contacts |-> Append(c, instance),
                  outbox |-> send_mail(o, instance.email, raises),
                  status |-> IF raises THEN "redirect_error_notice"
                                       ELSE "redirect_success"]
         ELSE [contacts |-> c, outbox |-> o, status |-> "form_errors"]
    ELSE [contacts |-> c, outbox |-> o, status |-> "render"]

\* -------------------------------------------------------------- list views
\* Values of the request's query string as the views see them: None for an
\* absent parameter, a str (its characters) for a present one; an int is what
\* the views themselves pass to the paginator.
PyNone       == [type |-> "NoneType"]
PyStr(chars) == [type |-> "str", chars |-> chars]
PyInt(n)     == [type |-> "int", value |-> n]

\* if search_query: None and the empty string are false.
Truthy(v) == v.type = "str" /\ v.chars # <<>>

Digits == <<"0", "1", "2", "3", "4", "5", "6", "7", "8", "9">>
DigitValue(c) == (CHOOSE i \in 1..10 : Digits[i] = c) - 1

RECURSIVE DigitsValue(_)
DigitsValue(ds) ==
    IF ds = <<>> THEN 0
    ELSE DigitsValue(SubSeq(ds, 1, Len(ds) - 1)) * 10 + DigitValue(ds[Len(ds)])

\* int(number) as the paginator calls it: an int is itself, a str is an
\* optional sign followed by decimal digits (ValueError otherwise), None is a
\* TypeError.
int(number) ==
    CASE number.type = "int" -> [ok |-> TRUE, value |-> number.value]
      [] number.type = "NoneType" -> [ok |-> FALSE, value |-> 0]
      [] OTHER ->
           LET signed == number.chars # <<>> /\ number.chars[1] \in {"-", "+"}
               ds     == IF signed THEN Tail(number.chars) ELSE number.chars
           IN IF ds # <<>> /\ \A i \in 1..Len(ds) : \E j \in 1..10 : Digits[j] = ds[i]
              THEN [ok |-> TRUE,
                    value |-> IF signed /\ number.chars[1] = "-"
                              THEN 0 - DigitsValue(ds) ELSE DigitsValue(ds)]
              ELSE [ok |-> FALSE, value |-> 0]

\* Paginator.num_pages with orphans = 0 and allow_empty_first_page = True.
num_pages(count, per_page) ==
    LET hits == IF count > 1 THEN count ELSE 1
    IN (hits + per_page - 1) \div per_page

\* Paginator.page(number): validate_number, then the slice of the page.
paginator_page(object_list, per_page, number) ==
    LET count == Len(object_list)
        n     == int(number)
    IN IF ~n.ok
       THEN [exc |-> "PageNotAnInteger", number |-> 0, object_list |-> <<>>]
       ELSE IF n.value < 1 \/ (n.value > num_pages(count, per_page) /\ n.value # 1)
            THEN [exc |-> "EmptyPage", number |-> 0, object_list |-> <<>>]
            ELSE LET bottom == (n.value - 1) * per_page
                     top    == IF bottom + per_page >= count THEN count
                               ELSE bottom + per_page
                 IN [exc |-> "none", number |-> n.value,
                     object_list |-> SubSeq(object_list, bottom + 1, top)]

\* A fallback that delivers the first page for an out-of-range number too.
list_pageFirstOnEmpty(queryset, per_page, page) ==
    LET requested == paginator_page(queryset, per_page, page)
    IN IF requested.exc = "none" THEN requested
       ELSE paginator_page(queryset, per_page, PyInt(1))

\* try paginator.page(page) / except PageNotAnInteger: page(1) /
\* except EmptyPage: page(paginator.num_pages).
list_page(queryset, per_page, page) ==
    LET requested == paginator_page(queryset, per_page, page)
    IN CASE requested.exc = "PageNotAnInteger" ->
              paginator_page(queryset, per_page, PyInt(1))
         [] requested.exc = "EmptyPage" ->
              paginator_page(queryset, per_page,
                             PyInt(num_pages(Len(queryset), per_page)))
         [] OTHER -> requested

\* The ids of a set from lo upwards, ascending; no id is above hi.
RECURSIVE ascending(_, _, _)
ascending(ids, lo, hi) ==
    IF lo > hi THEN <<>>
    ELSE (IF lo \in ids THEN <<lo>> ELSE <<>>) \o ascending(ids, lo + 1, hi)

\* order_by("id"): ids are positive and none is above the table's counter.
order_by_id(ids, last) == ascending(ids, 1, last)

\* The characters of the stored names.
Chars(name) ==
    CASE name = "Ann" -> <<"A", "n", "n">>
      [] name = "Bob" -> <<"B", "o", "b">>
      [] name = "Amy" -> <<"A", "m", "y">>
      [] name = "Lee" -> <<"L", "e", "e">>
      [] OTHER -> <<>>

Lower(c) ==
    CASE c = "A" -> "a" [] c = "B" -> "b" [] c = "L" -> "l" [] c = "N" -> "n"
      [] OTHER -> c

\* field__icontains=q
icontains(value, q) ==
    LET v == [i \in 1..Len(Chars(value)) |-> Lower(Chars(value)[i])]
        k == [i \in 1..Len(q) |-> Lower(q[i])]
    IN \E i \in 0..(Len(v) - Len(k)) : SubSeq(v, i + 1, i + Len(k)) = k

ChildPerPage   == 20
SponsorPerPage == 25
PolicyPerPage  == 25

child_list(d, search, page) ==
    LET all      == order_by_id(DOMAIN d.children, d.last_id.child)
        queryset == IF Truthy(search)
                    THEN SelectSeq(all, LAMBDA i :
                                     icontains(d.children[i].full_name, search.chars))
                    ELSE all
    IN list_page(queryset, ChildPerPage, page)

\* The sponsors with the given is_departed value; a search string has to be
\* in the first name and in the last name.
sponsor_queryset(d, is_departed, search) ==
    LET all == order_by_id({i \in DOMAIN d.sponsors : d.sponsors[i].is_departed = is_departed},
                           d.last_id.sponsor)
    IN IF Truthy(search)
       THEN SelectSeq(all, LAMBDA i :
                        /\ icontains(d.sponsors[i].first_name, search.chars)
                        /\ icontains(d.sponsors[i].last_name, search.chars))
       ELSE all

sponsor_list(d, search, page) ==
    list_page(sponsor_queryset(d, "No", search), SponsorPerPage, page)

sponsor_depature_list(d, search, page) ==
    list_page(sponsor_queryset(d, "Yes", search), SponsorPerPage, page)

\* The search filter of this view names a column of Policy, whose model is
\* not part of the sources; the view is modelled for requests without one.
policy_list(d, page) ==
    list_page(order_by_id(DOMAIN d.policies, d.last_id.policy), PolicyPerPage, page)

\* ------------------------------------------------------------------ inputs
\* str(n): the text of a page number in the query string.
RECURSIVE DecimalDigits(_)
DecimalDigits(n) ==
    IF n < 10 THEN <<Digits[n + 1]>>
    ELSE DecimalDigits(n \div 10) \o <<Digits[(n % 10) + 1]>>

Decimal(n) == IF n < 0 THEN <<"-">> \o DecimalDigits(0 - n) ELSE DecimalDigits(n)

PageNumbers == {0 - 1, 0, 1, 2, 3, 4, 999}
PageTokens  == {PyNone, PyStr(<<>>), PyStr(<<"a", "b", "c">>)}
               \cup {PyStr(Decimal(n)) : n \in PageNumbers}
Searches    == {PyNone, PyStr(<<>>), PyStr(<<"a", "N">>), PyStr(<<"e">>)}
\* A sheet is a sequence of rows of 31 cells; an empty cell reads as None.
NumColumns == 31
Header   == [k \in 1..NumColumns |-> "Title"]
EmptyRow == [k \in 1..NumColumns |-> None]

\* A row whose cells the storage accepts.
ValidRow ==
    [k \in 1..NumColumns |->
        CASE k = 1 -> "Ann" [] k = 5 -> "Female" [] k = 10 -> "No" [] k = 11 -> "No"
          [] k = 13 -> "Yes" [] k = 16 -> "Yes" [] k = 19 -> "+256999999999"
          [] k = 28 -> "2020" [] k = 29 -> "No"
          [] OTHER -> None]

Row(full_name, is_sponsored) == [ValidRow EXCEPT ![1] = full_name, ![11] = is_sponsored]
DataRows == {EmptyRow} \cup {Row(full_name, is_sponsored) :
                                 full_name \in Names, is_sponsored \in YesNo}
Sheets   == {<<Header>> \o rows : rows \in UNION {[1..n -> DataRows] : n \in 0..MaxRows}}

\* Rows of every kind: empty first cell, accepted, 31 different cells (the
\* typed columns holding values of their type), an empty cell in a NOT NULL
\* column, a flag outside its choices.
CellNames ==
    <<"c01", "c02", "c03", "c04", "c05", "c06", "c07", "c08", "c09", "c10",
      "c11", "c12", "c13", "c14", "c15", "c16", "c17", "c18", "c19", "c20",
      "c21", "c22", "c23", "c24", "c25", "c26", "c27", "c28", "c29", "c30", "c31">>
NumberedRow ==
    [k \in 1..NumColumns |->
        CASE k = 6 -> "2015-06-01" [] k = 7 -> "30.5" [] k = 8 -> "95" [] k = 28 -> "2020"
          [] OTHER -> CellNames[k]]
RefusedRow  == [ValidRow EXCEPT ![5] = None]
ImportRows  == {EmptyRow, Row("Ann", "Yes"), NumberedRow, RefusedRow, Row("Ann", "N/A")}
ImportSheetSet ==
    {<<Header>> \o rows : rows \in UNION {[1..n -> ImportRows] : n \in 0..MaxImportRows}}

\* The addresses a visitor enters in the contact form.
Emails == {"amy@example.org", "lee@example.org"}

\* ----------------------------------------------------------------- actions
\* A request is served when the ids it would allocate are within the bounds.
InBounds(d) ==
    /\ d.last_id.child <= MaxChildId
    /\ d.last_id.sponsor <= MaxSponsorId
    /\ d.last_id.sponsorship <= MaxSponsorshipId
    /\ d.last_id.departure <= MaxDepartureId
    /\ d.last_id.policy <= MaxPolicyId
    /\ d.last_id.picture <= MaxPictureId
    /\ d.last_id.progress <= MaxProgressId

\* Commit the handler's outcome and record the request with its response; the
\* ids and form values are recorded once the handler has resolved them.  A
\* request is served (Serve) when its outcome is within the bounds.
Commit(out, view, method, sponsor, child, policy, form) ==
    /\ SetDB(out.db)
    /\ response' = IF out.resolved
                   THEN Response(view, method, sponsor, child, policy, form, out.status)
                   ELSE Response(view, method, 0, 0, 0, <<>>, out.status)
    /\ UNCHANGED <<listing, clock, uploads, inflight, contacts, outbox>>

Serve(out, view, method, sponsor, child, policy, form) ==
    /\ InBounds(out.db)
    /\ Commit(out, view, method, sponsor, child, policy, form)

\* A write can only fail in a request that reaches its writes.  The handlers
\* other than child_sponsorship treat every exception alike.
WriteFails(out, n, errors) ==
    IF out.status = "redirect_success" THEN {NoFail} \cup [step : 1..n, exc : errors] ELSE {NoFail}

\* form.is_valid() is only asked of a POST.
Validity(method) == IF method = "POST" THEN BOOLEAN ELSE {FALSE}

\* The submitted values matter only where the handler reads them: in a POST
\* whose form is valid.  Elsewhere one value stands for all.
Submitted(method, form_valid, values) ==
    IF method = "POST" /\ form_valid THEN values ELSE {CHOOSE v \in values : TRUE}

RegisterChild ==
    \E method \in Methods :
    \E form_valid \in Validity(method) :
    \E full_name \in Submitted(method, form_valid, Names) :
        Serve(register_child(DB, method, form_valid, ChildData(full_name, None, "2020")),
              "register_child", method, 0, 0, 0, <<>>)

\* A registration whose date_of_birth and year_enrolled vary, the other
\* fields being valid: is_valid() is what the two validators say.  The
\* response keeps the two values.
FormYears == {"2012", "2013", "2024", "2025", "2026"}

RegisterChildDated ==
    \E method \in Methods, full_name \in Names :
    \E date_of_birth \in Submitted(method, TRUE, {None} \cup DateCells) :
    \E year_enrolled \in Submitted(method, TRUE, FormYears) :
        LET form_valid == /\ method = "POST"
                          /\ date_of_birth_validators(date_of_birth)
                          /\ year_enrolled_validators(year_enrolled)
            out == register_child(DB, method, form_valid,
                                  ChildData(full_name, date_of_birth, year_enrolled))
        IN /\ InBounds(out.db)
           /\ SetDB(out.db)
           /\ response' = Response("register_child", method, 0, 0, 0,
                                   <<date_of_birth, year_enrolled>>, out.status)
           /\ UNCHANGED <<listing, uploads, clock, inflight, contacts, outbox>>

\* A day passes, or several.
Tick ==
    /\ \E day \in DateCells :
           /\ Position(day) > Position(clock.now)
           /\ clock' = [clock EXCEPT !.now = day]
    /\ SetDB(DB)
    /\ UNCHANGED <<response, listing, uploads, inflight, contacts, outbox>>

\* The process is restarted: the class bodies run again.
Restart ==
    /\ clock.started # clock.now
    /\ clock' = [clock EXCEPT !.started = clock.now]
    /\ SetDB(DB)
    /\ UNCHANGED <<response, listing, uploads, inflight, contacts, outbox>>

UpdateChild ==
    \E pk \in ChildIds, method \in Methods :
    \E form_valid \in Validity(method) :
    \E full_name \in Submitted(method, form_valid, Names) :
        Serve(update_child(DB, pk, method, form_valid, ChildData(full_name, None, "2020")),
              "update_child", method, 0, pk, 0, <<>>)

ImportData ==
    \E method \in Methods :
    \E form_valid \in Validity(method) :
    \E sheet \in Submitted(method, form_valid, Sheets) :
        LET out == import_data(DB, method, form_valid, sheet, NoFail)
        IN /\ InBounds(out.db)
           /\ \E fail \in WriteFails(out, ImportWrites(Tail(sheet)), {"OperationalError"}) :
                 Serve(IF fail = NoFail THEN out
                       ELSE import_data(DB, method, form_valid, sheet, fail),
                       "import_data", method, 0, 0, 0, <<>>)

DeleteChild ==
    \E pk \in ChildIds :
        Serve(delete_child(DB, pk), "delete_child", "GET", 0, pk, 0, <<>>)

DeleteExcelData ==
    \E pk \in ChildIds :
        Serve(delete_excel_data(DB, pk), "delete_excel_data", "GET", 0, pk, 0, <<>>)

DeleteConfirmation ==
    \E method \in Methods :
        Serve(delete_confirmation(DB, method), "delete_confirmation", method, 0, 0, 0, <<>>)

UpdatePicture ==
    \E method \in Methods, child_id \in ChildIds :
    \E form_valid \in Validity(method) :
    \E picture \in Submitted(method, form_valid, Pictures) :
        Serve(update_picture(DB, method, form_valid, child_id, picture),
              "update_picture", method, 0, child_id, 0, <<picture>>)

\* An upload served by one of several workers: a POST with a valid form
\* for a child that exists has looked for the child's picture row ...
UploadBegin ==
    \E worker \in 1..MaxUploads, child_id \in ChildIds, picture \in Pictures :
        /\ \A u \in uploads : u.worker # worker
        /\ child_id \in DOMAIN children
        /\ uploads' = uploads \cup {[worker |-> worker, child |-> child_id,
                                      picture |-> picture,
                                      existing |-> existing_picture(DB, child_id)]}
        /\ SetDB(DB)
        /\ UNCHANGED <<response, listing, clock, inflight, contacts, outbox>>

\* ... and saves, other requests having been served in between.
UploadEnd ==
    \E u \in uploads :
        LET out == save_picture(DB, u.child, u.picture, u.existing)
        IN /\ InBounds(out.db)
           /\ SetDB(out.db)
           /\ uploads' = uploads \ {u}
           /\ response' = Response("update_picture", "POST", 0, u.child, 0,
                                   <<u.picture>>, out.status)
           /\ UNCHANGED <<listing, clock, inflight, contacts, outbox>>

ChildProgress ==
    \E method \in Methods, child_id \in ChildIds :
    \E form_valid \in Validity(method) :
        Serve(child_progress(DB, method, form_valid, child_id),
              "child_progress", method, 0, child_id, 0, <<>>)

RegisterSponsor ==
    \E method \in Methods :
    \E form_valid \in Validity(method) :
    \E first_name \in Submitted(method, form_valid, FirstNames),
       last_name \in Submitted(method, form_valid, LastNames) :
        Serve(register_sponsor(DB, method, form_valid, first_name, last_name),
              "register_sponsor", method, 0, 0, 0, <<>>)

UpdateSponsor ==
    \E pk \in SponsorIds, method \in Methods :
    \E form_valid \in Validity(method) :
    \E first_name \in Submitted(method, form_valid, FirstNames),
       last_name \in Submitted(method, form_valid, LastNames) :
        Serve(update_sponsor(DB, pk, method, form_valid, first_name, last_name),
              "update_sponsor", method, pk, 0, 0, <<>>)

SponsorDeparture ==
    \E method \in Methods :
    \E form_valid \in Validity(method) :
    \E sponsor_id \in Submitted(method, form_valid, SponsorIds),
       departure_date \in Submitted(method, form_valid, DepartureDates),
       departure_reason \in Submitted(method, form_valid, DepartureReasons) :
    \E fail \in WriteFails(sponsor_departure(DB, method, form_valid, sponsor_id,
                                             departure_date, departure_reason, NoFail),
                           3, {"OperationalError"}) :
        Serve(sponsor_departure(DB, method, form_valid, sponsor_id,
                                departure_date, departure_reason, fail),
              "sponsor_departure", method, sponsor_id, 0, 0,
              <<departure_date, departure_reason>>)

ReinstateSponsor ==
    \E pk \in SponsorIds, method \in Methods :
        Serve(reinstate_sponsor(DB, pk, method),
              "reinstate_sponsor", method, pk, 0, 0, <<>>)

ChildSponsorship ==
    \E method \in Methods :
    \E form_valid \in Validity(method) :
    \E sponsor_id \in Submitted(method, form_valid, SponsorIds),
       child_id \in Submitted(method, form_valid, ChildIds),
       sponsorship_type \in Submitted(method, form_valid, SponsorshipTypes),
       start_date \in Submitted(method, form_valid, StartDates) :
    \E fail \in WriteFails(child_sponsorship(DB, method, form_valid, sponsor_id, child_id,
                                             sponsorship_type, start_date, NoFail),
                           3, Errors) :
        Serve(child_sponsorship(DB, method, form_valid, sponsor_id, child_id,
                                sponsorship_type, start_date, fail),
              "child_sponsorship", method, sponsor_id, child_id, 0, <<>>)

\* A child_sponsorship request runs up to its writes.  A request that ends
\* before them (no POST, invalid form, missing record, duplicate) is served
\* at once; one that has passed the existence check is in flight.
ChildSponsorshipRead ==
    \E method \in Methods :
    \E form_valid \in Validity(method) :
    \E sponsor_id \in Submitted(method, form_valid, SponsorIds),
       child_id \in Submitted(method, form_valid, ChildIds),
       sponsorship_type \in Submitted(method, form_valid, SponsorshipTypes),
       start_date \in Submitted(method, form_valid, StartDates) :
        LET out == child_sponsorship(DB, method, form_valid, sponsor_id, child_id,
                                     sponsorship_type, start_date, NoFail)
            free == (1..MaxInflight) \ {r.slot : r \in inflight}
        IN IF out.status = "redirect_success"
           THEN /\ free # {}
                /\ inflight' = inflight \cup
                      {child_sponsorship_read(DB, CHOOSE k \in free : \A j \in free : k <= j,
                                              sponsor_id, child_id,
                                              sponsorship_type, start_date)}
                /\ SetDB(DB)
                /\ UNCHANGED <<response, listing, clock, uploads, contacts, outbox>>
           ELSE /\ SetDB(out.db)
                /\ response' = IF out.resolved
                               THEN Response("child_sponsorship", method,
                                             sponsor_id, child_id, 0, <<>>, out.status)
                               ELSE Response("child_sponsorship", method,
                                             0, 0, 0, <<>>, out.status)
                /\ UNCHANGED <<listing, clock, uploads, inflight, contacts, outbox>>

\* A request in flight writes and commits, or a write fails and the request
\* is rolled back.
ChildSponsorshipWrite ==
    \E request \in inflight :
    \E fail \in {NoFail} \cup [step : 1..3, exc : Errors] :
        LET out == child_sponsorship_write(DB, request, fail)
        IN /\ InBounds(out.db)
           /\ SetDB(out.db)
           /\ inflight' = inflight \ {request}
           /\ response' = Response("child_sponsorship", "POST", request.sponsor,
                                   request.child, 0, <<>>, out.status)
           /\ UNCHANGED <<listing, clock, uploads, contacts, outbox>>

\* update_child with a valid form that carries one of two names.
UpdateChildName ==
    \E pk \in ChildIds, full_name \in {"Ann", "Bob"} :
        /\ Serve(update_child(DB, pk, "POST", TRUE, ChildData(full_name, None, "2020")),
                 "update_child", "POST", 0, pk, 0, <<>>)

\* The delete views are reached by a link and never look at the method.
DeleteChildSponsorship ==
    \E pk \in SponsorshipIds :
        Serve(delete_child_sponsorship(DB, pk),
              "delete_child_sponsorship", "GET", 0, 0, 0, <<>>)

TerminateChildSponsorship ==
    \E pk \in ChildIds, method \in Methods :
        Serve(terminate_child_sponsorship(DB, pk, method),
              "terminate_child_sponsorship", method, 0, pk, 0, <<>>)

CreatePolicy ==
    \E method \in Methods :
    \E form_valid \in Validity(method) :
    \E content \in Submitted(method, form_valid, Contents) :
        Serve(create_policy(DB, method, form_valid, content),
              "create_policy", method, 0, 0, 0, <<>>)

UpdatePolicy ==
    \E pk \in PolicyIds, method \in Methods :
    \E form_valid \in Validity(method) :
    \E content \in Submitted(method, form_valid, Contents) :
        Serve(update_policy(DB, pk, method, form_valid, content),
              "update_policy", method, 0, 0, pk, <<>>)

DeletePolicy ==
    \E pk \in PolicyIds :
        Serve(delete_policy(DB, pk), "delete_policy", "GET", 0, 0, pk, <<>>)

ValidatePolicy ==
    \E policy_id \in PolicyIds, method \in Methods :
        Serve(validate_policy(DB, policy_id, method),
              "validate_policy", method, 0, 0, policy_id, <<>>)

ReadPolicy ==
    \E policy_id \in PolicyIds, method \in Methods :
    \E user \in (IF method = "POST" THEN Users ELSE {CHOOSE u \in Users : TRUE}) :
        Serve(read_policy(DB, policy_id, method, user),
              "read_policy", method, 0, 0, policy_id, <<user>>)

\* A list request renders a page and writes nothing.  The request is in
\* flight (status "pending") until its view has served it.
Pending(view) == response.view = view /\ response.status = "pending"

ServeList(page_obj) ==
    /\ listing' = IF page_obj.exc = "none"
                  THEN [number |-> page_obj.number, object_list |-> page_obj.object_list]
                  ELSE NoListing
    /\ response' = [response EXCEPT !.status = IF page_obj.exc = "none"
                                               THEN "render" ELSE "server_error_500"]
    /\ SetDB(DB)
    /\ UNCHANGED <<clock, uploads, inflight, contacts, outbox>>

ChildList ==
    /\ Pending("child_list")
    /\ ServeList(child_list(DB, response.form[1], response.form[2]))

SponsorList ==
    /\ Pending("sponsor_list")
    /\ ServeList(sponsor_list(DB, response.form[1], response.form[2]))

SponsorDepatureList ==
    /\ Pending("sponsor_depature_list")
    /\ ServeList(sponsor_depature_list(DB, response.form[1], response.form[2]))

PolicyList ==
    /\ Pending("policy_list")
    /\ ServeList(policy_list(DB, response.form[2]))

\* request.user.is_authenticated of the request in flight.
Authenticated == response.form[3]

\* @login_required: an anonymous request is redirected to the login page and
\* the view is not called.  A view without the decorator is called for every
\* request.
login_required(view, Handler) ==
    /\ Pending(view)
    /\ IF Authenticated
       THEN Handler
       ELSE /\ response' = [response EXCEPT !.status = "redirect_login"]
            /\ SetDB(DB)
            /\ UNCHANGED <<listing, clock, uploads, inflight, contacts, outbox>>

\* A visitor opens or submits the contact page.  Whether send_mail raises is
\* the mail server's choice; it matters only in a request that reaches it.
ContactUs ==
    \E method \in Methods :
    \E form_valid \in Validity(method) :
    \E name \in Submitted(method, form_valid, FirstNames),
       email \in Submitted(method, form_valid, Emails),
       raises \in Submitted(method, form_valid, BOOLEAN) :
        LET out == contact_us(contacts, outbox, method, form_valid, name, email, raises)
        IN /\ Len(out.contacts) <= MaxContacts
           /\ contacts' = out.contacts
           /\ outbox' = out.outbox
           /\ response' = Response("contact_us", method, 0, 0, 0,
                                   IF method = "POST" /\ form_valid
                                   THEN <<name, email>> ELSE <<>>, out.status)
           /\ UNCHANGED <<children, sponsors, sponsorships, departures, policies,
                          policy_reads, pictures, progresses, last_id, listing,
                          clock, uploads, inflight>>

\* ---------------------------------------------------------- specifications
\* Empty tables, no request served yet.
Init ==
    /\ children = <<>>
    /\ sponsors = <<>>
    /\ sponsorships = {}
    /\ departures = {}
    /\ policies = <<>>
    /\ policy_reads = {}
    /\ pictures = {}
    /\ progresses = {}
    /\ last_id = [child |-> 0, sponsor |-> 0, sponsorship |-> 0, departure |-> 0, policy |-> 0,
                  policy_read |-> 0, picture |-> 0, progress |-> 0]
    /\ response = Response("none", "GET", 0, 0, 0, <<>>, "none")
    /\ listing = NoListing
    /\ clock = [started |-> StartDay, now |-> StartDay]
    /\ uploads = {}
    /\ inflight = {}
    /\ contacts = <<>>
    /\ outbox = <<>>

\* Every request of the child and sponsor side of the application.
Next ==
    \/ RegisterChild
    \/ UpdateChild
    \/ ImportData
    \/ RegisterSponsor
    \/ SponsorDeparture
    \/ ReinstateSponsor
    \/ ChildSponsorship
    \/ DeleteChildSponsorship
    \/ TerminateChildSponsorship

Spec == Init /\ [][Next]_vars

\* The requests that read or write Child and ChildSponsorship rows.  They
\* never read Sponsor.is_departed or the SponsorDeparture table.
NextSponsorship ==
    \/ RegisterChild
    \/ UpdateChild
    \/ ImportData
    \/ RegisterSponsor
    \/ ChildSponsorship
    \/ DeleteChildSponsorship
    \/ TerminateChildSponsorship

SpecSponsorship == Init /\ [][NextSponsorship]_vars

\* The requests that read or write Sponsor and SponsorDeparture rows.
NextDeparture ==
    \/ RegisterSponsor
    \/ SponsorDeparture
    \/ ReinstateSponsor

SpecDeparture == Init /\ [][NextDeparture]_vars

\* The policy side of the application.
NextPolicy ==
    \/ CreatePolicy
    \/ UpdatePolicy
    \/ DeletePolicy
    \/ ValidatePolicy
    \/ ReadPolicy

SpecPolicy == Init /\ [][NextPolicy]_vars

\* Registrations over the days.
NextClock ==
    \/ RegisterChildDated
    \/ Tick
    \/ Restart

SpecClock == Init /\ [][NextClock]_vars

\* Picture uploads served concurrently.
NextUploads ==
    \/ RegisterChild
    \/ UploadBegin
    \/ UploadEnd

SpecUploads == Init /\ [][NextUploads]_vars

\* Children, their pictures and progress rows, and their deletion.
NextCascade ==
    \/ RegisterChild
    \/ UpdatePicture
    \/ ChildProgress
    \/ DeleteChild
    \/ DeleteExcelData
    \/ DeleteConfirmation

SpecCascade == Init /\ [][NextCascade]_vars

\* Tables as they are after a run of registrations and deletions: of the
\* ids handed out so far some records are left, at most one sponsorship
\* links a child and a sponsor that are left; and one request that names a
\* record by id (with a valid form, where it has one) in flight.
IdViews ==
    {"delete_child", "delete_excel_data", "update_child", "update_picture",
     "delete_sponsor", "update_sponsor", "sponsor_departure", "reinstate_sponsor",
     "child_sponsorship", "delete_child_sponsorship", "terminate_child_sponsorship",
     "update_policy", "delete_policy", "validate_policy", "read_policy"}

IdRequests ==
    {r \in [view : IdViews, method : Methods, sponsor : 0..(MaxSponsorId + 1),
            child : 0..(MaxChildId + 1), policy : 0..(MaxPolicyId + 1),
            form : {<<pk>> : pk \in 0..(MaxSponsorshipId + 1)}, status : {"pending"}] :
        /\ (r.child # 0) <=> r.view \in {"delete_child", "delete_excel_data", "update_child",
                                          "update_picture", "child_sponsorship",
                                          "terminate_child_sponsorship"}
        /\ (r.sponsor # 0) <=> r.view \in {"delete_sponsor", "update_sponsor",
                                            "sponsor_departure", "reinstate_sponsor",
                                            "child_sponsorship"}
        /\ (r.policy # 0) <=> r.view \in {"update_policy", "delete_policy",
                                           "validate_policy", "read_policy"}
        /\ (r.form[1] # 0) <=> r.view = "delete_child_sponsorship"
        /\ r.view \in {"update_picture", "sponsor_departure", "child_sponsorship"}
              => r.method = "POST"
        /\ r.view \in {"delete_child", "delete_excel_data", "delete_sponsor",
                        "delete_child_sponsorship", "delete_policy"} => r.method = "GET"}

InitRecords ==
    \E kids \in SUBSET (1..MaxChildId), spons \in SUBSET (1..MaxSponsorId),
       pols \in SUBSET (1..MaxPolicyId), link \in 0..MaxSponsorshipId,
       request \in IdRequests :
        LET linked == link # 0 /\ kids # {} /\ spons # {}
            kid    == CHOOSE c \in kids : TRUE
        IN /\ link # 0 => linked
           /\ children = [i \in kids |->
                  [ChildForm(ChildDefaults, ChildData("Ann", None, "2020")) EXCEPT
                      !.is_sponsored = IF linked /\ i = kid THEN "Yes" ELSE "No"]]
           /\ sponsors = [i \in spons |-> SponsorForm(NewSponsor, "Amy", "Lee")]
           /\ policies = [i \in pols |-> PolicyForm(PolicyDefaults, "v1")]
           /\ sponsorships =
                  IF linked
                  THEN {[NewSponsorship(link, CHOOSE x \in spons : TRUE, kid) EXCEPT
                            !.sponsorship_type = "Full", !.start_date = "2024-01-01"]}
                  ELSE {}
           /\ departures = {}
           /\ policy_reads = {}
           /\ pictures = {}
           /\ progresses = {}
           /\ last_id = [child |-> MaxChildId, sponsor |-> MaxSponsorId,
                         sponsorship |-> MaxSponsorshipId, departure |-> 0,
                         policy |-> MaxPolicyId, policy_read |-> 0,
                         picture |-> 0, progress |-> 0]
           /\ response = request
           /\ listing = NoListing
           /\ clock = [started |-> StartDay, now |-> StartDay]
           /\ uploads = {}
           /\ inflight = {}
           /\ contacts = <<>>
           /\ outbox = <<>>

\* The request in flight is served.
ServePending(out) ==
    /\ SetDB(out.db)
    /\ response' = [response EXCEPT !.status = out.status]
    /\ UNCHANGED <<listing, clock, uploads, inflight, contacts, outbox>>

\* The Child table after a run of registrations, and the import of a sheet of
\* any of the rows of ImportRows in flight; write number step of it fails
\* (0: none does).
InitImport ==
    \E prior \in 0..MaxImported, sheet \in ImportSheetSet :
    \E step \in 0..ImportWrites(Tail(sheet)) :
        /\ children = [i \in 1..prior |->
                          ChildForm(ChildDefaults, ChildData("Ann", None, "2020"))]
        /\ sponsors = <<>>
        /\ sponsorships = {}
        /\ departures = {}
        /\ policies = <<>>
        /\ policy_reads = {}
        /\ pictures = {}
        /\ progresses = {}
        /\ last_id = [child |-> prior, sponsor |-> 0, sponsorship |-> 0, departure |-> 0,
                      policy |-> 0, policy_read |-> 0, picture |-> 0, progress |-> 0]
        /\ response = Response("import_data", "POST", 0, 0, 0, <<sheet, step>>, "pending")
        /\ listing = NoListing
        /\ clock = [started |-> StartDay, now |-> StartDay]
        /\ uploads = {}
        /\ inflight = {}
        /\ contacts = <<>>
        /\ outbox = <<>>

ImportSheets ==
    /\ Pending("import_data")
    /\ ServePending(import_data(DB, response.method, TRUE, response.form[1],
                                IF response.form[2] = 0 THEN NoFail
                                ELSE [step |-> response.form[2],
                                      exc |-> "OperationalError"]))

NextImport == ImportSheets

SpecImport == InitImport /\ [][NextImport]_vars

NextRecords ==
    \/ Pending("delete_child") /\ ServePending(delete_child(DB, response.child))
    \/ Pending("delete_excel_data") /\ ServePending(delete_excel_data(DB, response.child))
    \/ Pending("update_child") /\
          ServePending(update_child(DB, response.child, response.method,
                                    response.method = "POST", ChildData("Ann", None, "2020")))
    \/ Pending("update_picture") /\
          ServePending(update_picture(DB, response.method, TRUE, response.child, "a.jpg"))
    \/ Pending("delete_sponsor") /\ ServePending(delete_sponsor(DB, response.sponsor))
    \/ Pending("update_sponsor") /\
          ServePending(update_sponsor(DB, response.sponsor, response.method,
                                      response.method = "POST", "Amy", "Lee"))
    \/ Pending("sponsor_departure") /\
          ServePending(sponsor_departure(DB, response.method, TRUE, response.sponsor,
                                         "2024-03-01", "relocated", NoFail))
    \/ Pending("reinstate_sponsor") /\
          ServePending(reinstate_sponsor(DB, response.sponsor, response.method))
    \/ Pending("child_sponsorship") /\
          ServePending(child_sponsorship(DB, response.method, TRUE, response.sponsor,
                                         response.child, "Full", "2024-01-01", NoFail))
    \/ Pending("delete_child_sponsorship") /\
          ServePending(delete_child_sponsorship(DB, response.form[1]))
    \/ Pending("terminate_child_sponsorship") /\
          ServePending(terminate_child_sponsorship(DB, response.child, response.method))
    \/ Pending("update_policy") /\
          ServePending(update_policy(DB, response.policy, response.method,
                                     response.method = "POST", "v2"))
    \/ Pending("delete_policy") /\ ServePending(delete_policy(DB, response.policy))
    \/ Pending("validate_policy") /\
          ServePending(validate_policy(DB, response.policy, response.method))
    \/ Pending("read_policy") /\
          ServePending(read_policy(DB, response.policy, response.method, "alice"))

SpecRecords == InitRecords /\ [][NextRecords]_vars

\* The create and update forms of the three kinds of record.
NextForms ==
    \/ RegisterChild
    \/ UpdateChild
    \/ RegisterSponsor
    \/ UpdateSponsor
    \/ CreatePolicy
    \/ UpdatePolicy

SpecForms == Init /\ [][NextForms]_vars

\* Tables as they are after a run of registrations (and, for the sponsors,
\* departures): n records each with consecutive ids, the ids starting at 1 or,
\* the first record having been deleted since, at 2; and one list request in
\* flight.
ListNames == <<"Ann", "Bob">>
ListViews == {"child_list", "sponsor_list", "sponsor_depature_list", "policy_list"}

InitList ==
    \E n \in 0..MaxListed, first \in 1..2, is_departed \in YesNo,
       view \in ListViews, page \in PageTokens :
    \E search \in (IF view = "policy_list" THEN {PyNone} ELSE Searches) :
        LET ids == first..(first + n - 1)
        IN /\ children = [i \in ids |->
                            [ChildDefaults EXCEPT !.full_name = ListNames[(i % 2) + 1]]]
           /\ sponsors = [i \in ids |->
                            [SponsorForm(NewSponsor, "Amy", "Lee") EXCEPT
                                !.is_departed = is_departed]]
           /\ policies = [i \in ids |-> PolicyForm(PolicyDefaults, "v1")]
           /\ sponsorships = {}
           /\ departures = IF is_departed = "Yes"
                           THEN {[NewDeparture(i, i) EXCEPT
                                     !.departure_date = "2024-03-01",
                                     !.departure_reason = "relocated"] : i \in ids}
                           ELSE {}
           /\ policy_reads = {}
           /\ pictures = {}
           /\ progresses = {}
           /\ last_id = [child |-> first + n - 1, sponsor |-> first + n - 1,
                         sponsorship |-> 0,
                         departure |-> IF is_departed = "Yes" THEN first + n - 1 ELSE 0,
                         policy |-> first + n - 1, policy_read |-> 0,
                         picture |-> 0, progress |-> 0]
           /\ response = Response(view, "GET", 0, 0, 0, <<search, page>>, "pending")
           /\ listing = NoListing
           /\ clock = [started |-> StartDay, now |-> StartDay]
           /\ uploads = {}
           /\ inflight = {}
           /\ contacts = <<>>
           /\ outbox = <<>>

\* The list pages.
NextList ==
    \/ ChildList
    \/ SponsorList
    \/ SponsorDepatureList
    \/ PolicyList

SpecList == InitList /\ [][NextList]_vars

\* The contact page alone.
NextContact == ContactUs

SpecContact == Init /\ [][NextContact]_vars

\* Tables as they are after a run of registrations, and one request of a
\* signed-in or an anonymous user in flight: a list page or a deletion.
GatedViews == ListViews \cup {"delete_child", "delete_sponsor"}

InitGated ==
    \E n \in 0..MaxGated, is_departed \in YesNo, view \in GatedViews,
       authenticated \in BOOLEAN :
    \E search \in (IF view \in ListViews \ {"policy_list"} THEN Searches ELSE {PyNone}),
       page \in (IF view \in ListViews THEN PageTokens ELSE {PyNone}),
       pk \in (IF view \in ListViews THEN {0} ELSE 1..(MaxGated + 1)) :
        /\ children = [i \in 1..n |->
                          [ChildDefaults EXCEPT !.full_name = ListNames[(i % 2) + 1]]]
        /\ sponsors = [i \in 1..n |->
                          [SponsorForm(NewSponsor, "Amy", "Lee") EXCEPT
                              !.is_departed = is_departed]]
        /\ policies = [i \in 1..n |-> PolicyForm(PolicyDefaults, "v1")]
        /\ sponsorships = {}
        /\ departures = IF is_departed = "Yes"
                        THEN {[NewDeparture(i, i) EXCEPT
                                  !.departure_date = "2024-03-01",
                                  !.departure_reason = "relocated"] : i \in 1..n}
                        ELSE {}
        /\ policy_reads = {}
        /\ pictures = {}
        /\ progresses = {}
        /\ last_id = [child |-> n, sponsor |-> n, sponsorship |-> 0,
                      departure |-> IF is_departed = "Yes" THEN n ELSE 0,
                      policy |-> n, policy_read |-> 0, picture |-> 0, progress |-> 0]
        /\ response = Response(view, "GET",
                               IF view = "delete_sponsor" THEN pk ELSE 0,
                               IF view = "delete_child" THEN pk ELSE 0, 0,
                               <<search, page, authenticated>>, "pending")
        /\ listing = NoListing
        /\ clock = [started |-> StartDay, now |-> StartDay]
        /\ uploads = {}
        /\ inflight = {}
        /\ contacts = <<>>
        /\ outbox = <<>>

\* The views as the url patterns reach them: with the decorator where the
\* source has one.
NextGated ==
    \/ ChildList
    \/ login_required("sponsor_list", SponsorList)
    \/ SponsorDepatureList
    \/ login_required("policy_list", PolicyList)
    \/ login_required("delete_child", ServePending(delete_child(DB, response.child)))
    \/ login_required("delete_sponsor", ServePending(delete_sponsor(DB, response.sponsor)))

SpecGated == InitGated /\ [][NextGated]_vars

\* One child and one sponsor are registered; child_sponsorship requests
\* overlap with each other and with the requests that change the child.
InitRace ==
    /\ children = [i \in {1} |-> ChildForm(ChildDefaults, ChildData("Ann", None, "2020"))]
    /\ sponsors = [i \in {1} |-> SponsorForm(NewSponsor, "Amy", "Lee")]
    /\ sponsorships = {}
    /\ departures = {}
    /\ policies = <<>>
    /\ policy_reads = {}
    /\ pictures = {}
    /\ progresses = {}
    /\ last_id = [child |-> 1, sponsor |-> 1, sponsorship |-> 0, departure |-> 0,
                  policy |-> 0, policy_read |-> 0, picture |-> 0, progress |-> 0]
    /\ response = Response("none", "GET", 0, 0, 0, <<>>, "none")
    /\ listing = NoListing
    /\ clock = [started |-> StartDay, now |-> StartDay]
    /\ uploads = {}
    /\ inflight = {}
    /\ contacts = <<>>
    /\ outbox = <<>>

NextRace ==
    \/ ChildSponsorshipRead
    \/ ChildSponsorshipWrite
    \/ UpdateChildName
    \/ TerminateChildSponsorship

SpecRace == InitRace /\ [][NextRace]_vars

\* ------------------------------------------------------------------ claims
\* The ChildSponsorship rows a step adds.
AddedSponsorships == sponsorships' \ sponsorships

\* C1: a child_sponsorship POST with a valid form for an existing sponsor s and
\* child c that have no link either succeeds, adding exactly one row for (s, c)
\* with the submitted values and setting c.is_sponsored to "Yes" in the same
\* commit, or fails and leaves rows and flags as they were; and no step of any
\* kind commits a new row whose child is not flagged "Yes".
C1_Step ==
    /\ \A row \in AddedSponsorships :
          /\ children'[row.child].is_sponsored = "Yes"
          /\ response'.view = "child_sponsorship"
          /\ response'.status = "redirect_success"
    /\ ( /\ response'.view = "child_sponsorship"
         /\ response'.sponsor # 0
         /\ ~\E row \in sponsorships :
                row.sponsor = response'.sponsor /\ row.child = response'.child )
       => \/ /\ response'.status = "redirect_success"
             /\ \E row \in AddedSponsorships :
                   /\ sponsorships' = sponsorships \cup {row}
                   /\ row.sponsor = response'.sponsor
                   /\ row.child = response'.child
                   /\ row.sponsorship_type \in SponsorshipTypes
                   /\ row.start_date \in StartDates
             /\ children' = [children EXCEPT ![response'.child].is_sponsored = "Yes"]
          \/ /\ response'.status \in {"error_notice", "server_error_500"}
             /\ sponsorships' = sponsorships
             /\ children' = children
             /\ last_id' = last_id

C1_AtomicSponsorship == [][C1_Step]_vars

\* A sponsorship was just created and its child is flagged.
C1_Witness ==
    /\ response.view = "child_sponsorship"
    /\ response.status = "redirect_success"
    /\ \E row \in sponsorships :
          /\ row.sponsor = response.sponsor
          /\ row.child = response.child
          /\ children[row.child].is_sponsored = "Yes"

\* C2: a child_sponsorship request for a pair that already has a link ends in
\* the duplicate notice and changes no table, whatever is_sponsored was.
C2_Step ==
    /\ ( /\ response'.view = "child_sponsorship"
         /\ response'.sponsor # 0
         /\ \E row \in sponsorships :
               row.sponsor = response'.sponsor /\ row.child = response'.child )
       => response'.status = "duplicate_notice"
    /\ ( response'.view = "child_sponsorship" /\ response'.status = "duplicate_notice" )
       => /\ \E row \in sponsorships :
                row.sponsor = response'.sponsor /\ row.child = response'.child
          /\ sponsorships' = sponsorships
          /\ children' = children
          /\ sponsors' = sponsors
          /\ departures' = departures
          /\ last_id' = last_id

C2_DuplicateRejected == [][C2_Step]_vars

\* A duplicate was just rejected for a child whose flag is "No".
C2_Witness ==
    /\ response.view = "child_sponsorship"
    /\ response.status = "duplicate_notice"
    /\ children[response.child].is_sponsored = "No"
    /\ \E row \in sponsorships :
          row.sponsor = response.sponsor /\ row.child = response.child

\* C3: with requests served one after another, no two ChildSponsorship rows
\* have the same (sponsor, child) pair.
C3_UniquePair ==
    \A r1 \in sponsorships, r2 \in sponsorships :
        (r1.sponsor = r2.sponsor /\ r1.child = r2.child) => r1 = r2

\* A second request for a linked pair was turned down: the pair has one row.
C3_Witness ==
    /\ response.view = "child_sponsorship"
    /\ response.status = "duplicate_notice"
    /\ children[response.child].is_sponsored = "Yes"
    /\ Cardinality({row \in sponsorships : row.sponsor = response.sponsor
                                           /\ row.child = response.child}) = 1

\* C4: a Child's is_sponsored is "Yes" exactly when some ChildSponsorship row
\* references the child.
C4_FlagIffLinked ==
    \A c \in DOMAIN children :
        (children[c].is_sponsored = "Yes") <=> (\E row \in sponsorships : row.child = c)

\* C5: no step adds a ChildSponsorship row whose sponsor is departed.
C5_Step ==
    \A row \in AddedSponsorships : sponsors[row.sponsor].is_departed # "Yes"

C5_NoDepartedSponsor == [][C5_Step]_vars

\* The SponsorDeparture rows a step adds.
AddedDepartures == departures' \ departures

\* C6: a sponsor_departure request either succeeds, adding one SponsorDeparture
\* row for the sponsor with the submitted date and reason and setting the
\* sponsor's is_departed to "Yes", or leaves the SponsorDeparture rows and
\* every sponsor as they were; no other step adds a row.
C6_Step ==
    /\ \A row \in AddedDepartures :
          response'.view = "sponsor_departure" /\ response'.status = "redirect_success"
    /\ response'.view = "sponsor_departure"
       => \/ /\ response'.status = "redirect_success"
             /\ \E row \in AddedDepartures :
                   /\ departures' = departures \cup {row}
                   /\ row.sponsor = response'.sponsor
                   /\ row.departure_date = response'.form[1]
                   /\ row.departure_reason = response'.form[2]
             /\ sponsors' = [sponsors EXCEPT ![response'.sponsor].is_departed = "Yes"]
          \/ /\ response'.status # "redirect_success"
             /\ departures' = departures
             /\ sponsors' = sponsors
             /\ last_id' = last_id

C6_AtomicDeparture == [][C6_Step]_vars

\* A departure was just recorded: the row is there and the sponsor is departed.
C6_Witness ==
    /\ response.view = "sponsor_departure"
    /\ response.status = "redirect_success"
    /\ sponsors[response.sponsor].is_departed = "Yes"
    /\ \E row \in departures :
          row.sponsor = response.sponsor /\ row.departure_date = response.form[1]

\* C7: a reinstatement POST sets the sponsor's is_departed to "No", changes no
\* other sponsor and no SponsorDeparture row, and changes nothing at all when
\* the sponsor was not departed.
C7_Step ==
    ( /\ response'.view = "reinstate_sponsor"
      /\ response'.method = "POST"
      /\ response'.sponsor # 0 )
    => /\ response'.status = "redirect_success"
       /\ sponsors' = [sponsors EXCEPT ![response'.sponsor].is_departed = "No"]
       /\ departures' = departures
       /\ children' = children
       /\ sponsorships' = sponsorships
       /\ last_id' = last_id
       /\ sponsors[response'.sponsor].is_departed = "No" => sponsors' = sponsors

C7_ReinstateKeepsHistory == [][C7_Step]_vars

\* A departed sponsor was just reinstated and its departure row is still there.
C7_Witness ==
    /\ response.view = "reinstate_sponsor"
    /\ response.status = "redirect_success"
    /\ sponsors[response.sponsor].is_departed = "No"
    /\ \E row \in departures : row.sponsor = response.sponsor

\* C8: a termination POST for child c sets c.is_sponsored to "No", changes no
\* other child and no ChildSponsorship row.
C8_Step ==
    ( /\ response'.view = "terminate_child_sponsorship"
      /\ response'.method = "POST"
      /\ response'.child # 0 )
    => /\ response'.status = "redirect_success"
       /\ children' = [children EXCEPT ![response'.child].is_sponsored = "No"]
       /\ sponsorships' = sponsorships

C8_TerminateKeepsLinks == [][C8_Step]_vars

\* A linked child was just terminated: the flag is "No", the row is still there.
C8_Witness ==
    /\ response.view = "terminate_child_sponsorship"
    /\ response.status = "redirect_success"
    /\ children[response.child].is_sponsored = "No"
    /\ \E row \in sponsorships : row.child = response.child

\* C9: a validation POST for a policy that is already valid reports success
\* and leaves is_valid true.
C9_Step ==
    ( /\ response'.view = "validate_policy"
      /\ response'.method = "POST"
      /\ response'.policy \in DOMAIN policies
      /\ policies[response'.policy].is_valid )
    => /\ response'.status = "redirect_success"
       /\ policies'[response'.policy].is_valid

C9_RevalidateSucceeds == [][C9_Step]_vars

\* C10: a policy is created with is_valid false, only validate_policy for that
\* policy turns is_valid true, and no step turns it back to false while the
\* policy exists.
C10_Step ==
    \A p \in DOMAIN policies' :
        IF p \in DOMAIN policies
        THEN /\ policies[p].is_valid => policies'[p].is_valid
             /\ (~policies[p].is_valid /\ policies'[p].is_valid)
                => (response'.view = "validate_policy" /\ response'.policy = p)
        ELSE ~policies'[p].is_valid

C10_ValidMonotonic == [][C10_Step]_vars

\* A valid policy was just updated, after having been acknowledged.
C10_Witness ==
    /\ response.view = "update_policy"
    /\ response.status = "redirect_success"
    /\ policies[response.policy].is_valid
    /\ \E r \in policy_reads : r.policy = response.policy

\* C11: a read_policy POST by user u for an existing policy p leaves exactly one
\* PolicyRead row for (u, p): when there was none it adds the row and reports
\* that the acknowledgement was recorded, when there was one it changes nothing
\* and reports that it was already recorded; no request makes a second row.
C11_Step ==
    /\ ( /\ response'.view = "read_policy"
         /\ response'.method = "POST"
         /\ response'.policy # 0 )
       => /\ Cardinality({r \in policy_reads' : r.user = response'.form[1]
                                                /\ r.policy = response'.policy}) = 1
          /\ IF \E r \in policy_reads : r.user = response'.form[1]
                                        /\ r.policy = response'.policy
             THEN /\ response'.status = "redirect_already_read"
                  /\ policy_reads' = policy_reads
             ELSE /\ response'.status = "redirect_recorded"
                  /\ \E r \in policy_reads' : policy_reads' = policy_reads \cup {r}
          /\ policies' = policies
    /\ \A r1 \in policy_reads', r2 \in policy_reads' :
          (r1.user = r2.user /\ r1.policy = r2.policy) => r1 = r2

C11_IdempotentRead == [][C11_Step]_vars

\* A user who had acknowledged a policy did it again: still one row.
C11_Witness ==
    /\ response.view = "read_policy"
    /\ response.status = "redirect_already_read"
    /\ Cardinality({r \in policy_reads : r.user = response.form[1]
                                          /\ r.policy = response.policy}) = 1

\* The records a list request matches, as the tables hold them.
C12_Matching ==
    LET search == response.form[1]
    IN CASE response.view = "child_list" ->
              {i \in DOMAIN children :
                  Truthy(search) => icontains(children[i].full_name, search.chars)}
         [] response.view = "policy_list" -> DOMAIN policies
         [] OTHER ->
              {i \in DOMAIN sponsors :
                  /\ sponsors[i].is_departed =
                        (IF response.view = "sponsor_list" THEN "No" ELSE "Yes")
                  /\ Truthy(search) => /\ icontains(sponsors[i].first_name, search.chars)
                                       /\ icontains(sponsors[i].last_name, search.chars)}

C13_Names    == Names \cup {"Bob", "R2-D2"}
C13_Contents == Contents \cup {""}

\* C13: in every reachable state, a create or update POST (child, sponsor,
\* policy) whose form fails validation leaves every table as it is, whatever
\* values it carries, and renders the form with its errors.
C13_InvalidWritesNothing ==
    /\ \A name \in C13_Names :
          /\ register_child(DB, "POST", FALSE, ChildData(name, None, "2020")) = Early(DB, "form_errors")
          /\ register_sponsor(DB, "POST", FALSE, name, name) = Early(DB, "form_errors")
          /\ \A pk \in DOMAIN children :
                update_child(DB, pk, "POST", FALSE, ChildData(name, None, "2020")) = Early(DB, "form_errors")
          /\ \A pk \in DOMAIN sponsors :
                update_sponsor(DB, pk, "POST", FALSE, name, name) = Early(DB, "form_errors")
    /\ \A content \in C13_Contents :
          /\ create_policy(DB, "POST", FALSE, content) = Early(DB, "form_errors")
          /\ \A pk \in DOMAIN policies :
                update_policy(DB, pk, "POST", FALSE, content) = Early(DB, "form_errors")
    /\ response.status = "form_errors" => response.method = "POST"

\* An update of an existing child was turned down with form errors while a
\* sponsor and a policy exist.
C13_Witness ==
    /\ response.view = "update_child"
    /\ response.status = "form_errors"
    /\ children # <<>>
    /\ sponsors # <<>>
    /\ policies # <<>>

\* C14: every stored Child has its enumerated fields inside their closed sets.
C14_EnumsClosed ==
    \A c \in DOMAIN children :
        /\ children[c].is_sponsored \in {"Yes", "No"}
        /\ children[c].is_departed \in {"Yes", "No"}
        /\ children[c].is_child_in_school \in {"Yes", "No"}
        /\ children[c].is_father_alive \in {"Yes", "No"}
        /\ children[c].is_mother_alive \in {"Yes", "No"}
        /\ children[c].gender \in {"Male", "Female"}
        /\ children[c].religion \in {"Born-again Christian", "Anglican", "Catholic",
                                     "Muslim", "", None}

\* C15: a Child creation is accepted, and stores the record, exactly when its
\* date_of_birth lies between 1900-01-01 and the day of the request and its
\* year_enrolled between 2013 and the year of the request; otherwise it ends
\* in the form's errors and creates nothing.
C15_Step ==
    (response'.view = "register_child" /\ response'.method = "POST"
        /\ response'.form # <<>> /\ clock' = clock) =>
        LET date_of_birth == response'.form[1]
            year_enrolled == response'.form[2]
            inside == /\ date_of_birth # None =>
                            /\ Position("1900-01-01") <= Position(date_of_birth)
                            /\ Position(date_of_birth) <= Position(clock.now)
                      /\ 2013 <= IntegerValue(year_enrolled)
                      /\ IntegerValue(year_enrolled) <= Year(clock.now)
        IN IF inside
           THEN /\ response'.status = "saved"
                /\ \E c \in DOMAIN children' \ DOMAIN children :
                       /\ children'[c].date_of_birth = date_of_birth
                       /\ children'[c].year_enrolled = year_enrolled
           ELSE /\ response'.status = "form_errors"
                /\ children' = children

C15_RequestTimeBounds == [][C15_Step]_vars

\* C16: a request that names a record that does not exist ends in a
\* not-found error outcome and leaves every table as it was.
C16_Missing ==
    \/ response.child # 0 /\ response.child \notin DOMAIN children
    \/ response.sponsor # 0 /\ response.sponsor \notin DOMAIN sponsors
    \/ response.policy # 0 /\ response.policy \notin DOMAIN policies
    \/ /\ response.view = "delete_child_sponsorship"
       /\ \A row \in sponsorships : row.id # response.form[1]

C16_Step ==
    (response.status = "pending" /\ response'.status # "pending" /\ C16_Missing) =>
        /\ response'.status \in {"not_found_404", "not_found_notice", "does_not_exist_500"}
        /\ response'.view \in {"delete_child", "delete_excel_data", "delete_sponsor",
                                "delete_child_sponsorship", "delete_policy"}
              => response'.status = "does_not_exist_500"
        /\ DB' = DB

C17_NoOrphans ==
    /\ \A row \in pictures : row.child \in DOMAIN children
    /\ \A row \in progresses : row.child \in DOMAIN children

C17_Witness ==
    /\ response.view = "delete_child"
    /\ response.status = "redirect_deleted"
    /\ last_id.child = 1 /\ last_id.picture >= 1 /\ last_id.progress >= 2
    /\ children = <<>>
    /\ pictures = {} /\ progresses = {}

\* C18: a Child never has two ChildProfilePicture rows; a successful upload
\* for a child without a row adds one row, a successful upload for a child
\* with a row replaces the picture of that row and adds none.
C18_OnePicture ==
    \A c \in DOMAIN children : Cardinality({row \in pictures : row.child = c}) <= 1

C18_Step ==
    (uploads' # uploads /\ uploads' \subseteq uploads /\ response'.view = "update_picture"
        /\ response'.status = "redirect_success") =>
        LET c   == response'.child
            old == {row \in pictures : row.child = c}
            new == {row \in pictures' : row.child = c}
        IN /\ Cardinality(new) = 1
           /\ \A row \in new : row.picture = response'.form[1]
           /\ old # {} => {row.id : row \in new} = {row.id : row \in old}
           /\ {row \in pictures' : row.child # c} = {row \in pictures : row.child # c}

C18_AtMostOnePicture == []C18_OnePicture /\ [][C18_Step]_vars

C18_Witness ==
    /\ response.view = "update_picture"
    /\ response.status = "server_error_500"
    /\ Cardinality({row \in pictures : row.child = response.child}) = 1

\* C19: an import that completes without error creates one Child per data
\* row whose first cell is not empty, in row order, none from the header or
\* from a row whose first cell is empty, and the fields of each are the 31
\* cells of its row in the documented column order.
C19_Columns ==
    <<"full_name", "preferred_name", "residence", "tribe", "gender", "date_of_birth",
      "weight", "height", "c_interest", "is_child_in_school", "is_sponsored",
      "father_name", "is_father_alive", "father_description", "mother_name",
      "is_mother_alive", "mother_description", "guardian", "guardian_contact",
      "relationship_with_guardian", "siblings", "background_info", "health_status",
      "responsibility", "relationship_with_christ", "religion", "prayer_request",
      "year_enrolled", "is_departed", "staff_comment", "compiled_by">>

C19_HasFirst(row) == row[1] # None

C19_Step ==
    (response'.view = "import_data" /\ response'.status = "redirect_success") =>
        LET kept == SelectSeq(Tail(response'.form[1]), C19_HasFirst)
            base == last_id.child
        IN /\ DOMAIN children' = DOMAIN children \cup ((base + 1)..(base + Len(kept)))
           /\ \A c \in DOMAIN children : children'[c] = children[c]
           /\ \A j \in 1..Len(kept) : \A k \in 1..31 :
                  children'[base + j][C19_Columns[k]] = kept[j][k]

C19_ImportMapsRows == [][C19_Step]_vars

C19_Witness ==
    /\ response.view = "import_data"
    /\ response.status = "redirect_success"
    /\ response.form[1] = <<Header, EmptyRow, NumberedRow>>
    /\ DOMAIN children = {1}
    /\ children[1].full_name = "c01" /\ children[1].compiled_by = "c31"

\* C20 as stated: when row k of an import fails, the Child records of the rows
\* before k remain committed.
C20_RowsBefore ==
    LET kept == SelectSeq(Tail(response'.form[1]), C19_HasFirst)
    IN IF kept # <<>> /\ Storable(RowChild(kept[1])) /\ response'.form[2] \notin {1, 2}
       THEN {kept[1]} ELSE {}

C20_RemainStep ==
    (response'.view = "import_data" /\ response'.status = "redirect_error") =>
        \A row \in C20_RowsBefore :
            \E c \in DOMAIN children' \ DOMAIN children : children'[c] = RowChild(row)

C20_Fails ==
    /\ response'.view = "import_data" /\ response'.form # <<>>
    /\ \/ response'.form[2] # 0
       \/ \E i \in 2..Len(response'.form[1]) :
             /\ C19_HasFirst(response'.form[1][i])
             /\ ~Storable(RowChild(response'.form[1][i]))

C20_Step ==
    /\ C20_Fails => response'.status = "redirect_error"
    /\ (response'.view = "import_data" /\ response'.status = "redirect_error") =>
          /\ C20_Fails
          /\ children' = children

C21_DeliveryFailed ==
    /\ response'.view = "contact_us"
    /\ \E i \in (Len(outbox) + 1)..Len(outbox') : ~outbox'[i].delivered

C21_Step ==
    C21_DeliveryFailed =>
        /\ response'.status = "redirect_error_notice"
        /\ contacts' = Append(contacts, NewContact(response'.form[1], response'.form[2]))
        /\ outbox' = Append(outbox, [to |-> response'.form[2], delivered |-> FALSE])

C21_FailureSwallowed == [][C21_Step]_vars

C21_Witness ==
    /\ response.view = "contact_us"
    /\ response.status = "redirect_error_notice"
    /\ Len(contacts) = 2 /\ Len(outbox) = 2
    /\ outbox[1].delivered /\ ~outbox[2].delivered
    /\ contacts[2].email = outbox[2].to

\* C22 as stated: a request of an anonymous user to a view that lists, reads
\* or mutates the records is answered without any stored record and leaves
\* the tables as they were.
C22_Step ==
    (response.status = "pending" /\ ~Authenticated) =>
        /\ listing'.object_list = <<>>
        /\ UNCHANGED <<children, sponsors, sponsorships, departures, policies,
                       policy_reads, pictures, progresses, last_id>>

C22_GatedByAuthentication == [][C22_Step]_vars

\* The records of the list that C23 says a search selects: for the child list
\* those with the search string in full_name, for the two sponsor lists those
\* with it in first_name or in last_name; all of them without a search string.
C23_Selected ==
    LET search == response.form[1]
    IN IF response.view = "child_list"
       THEN {i \in DOMAIN children :
                Truthy(search) => icontains(children[i].full_name, search.chars)}
       ELSE {i \in DOMAIN sponsors :
                /\ sponsors[i].is_departed =
                      (IF response.view = "sponsor_list" THEN "No" ELSE "Yes")
                /\ Truthy(search) => \/ icontains(sponsors[i].first_name, search.chars)
                                     \/ icontains(sponsors[i].last_name, search.chars)}

\* C23 as stated: the page rendered by the child list or a sponsor list is the
\* page of that number cut from the selected records in id order.
C23_SearchSelects ==
    (response.view \in ListViews \ {"policy_list"} /\ response.status = "render")
    => LET S      == IF response.view = "child_list" THEN ChildPerPage ELSE SponsorPerPage
           sorted == order_by_id(C23_Selected, MaxListed + 2)
           bottom == (listing.number - 1) * S
           top    == IF bottom + S > Len(sorted) THEN Len(sorted) ELSE bottom + S
       IN listing.object_list = SubSeq(sorted, bottom + 1, top)

\* C24: a child_sponsorship request is in flight only after its existence
\* check found no row of its pair, whatever other requests are in flight; and
\* when its writes do not fail it commits one new row for its pair, whatever
\* has been committed since the check.  So two overlapping requests for one
\* pair leave two rows for it.
C24_Step ==
    /\ \A r \in inflight' \ inflight : ~SponsorshipExists(DB, r.sponsor, r.child)
    /\ \A r \in inflight \ inflight' :
          response'.status \notin {"error_notice", "server_error_500"} =>
              /\ response'.status = "redirect_success"
              /\ sponsorships \subseteq sponsorships'
              /\ \E row \in sponsorships' \ sponsorships :
                    /\ row.sponsor = r.sponsor /\ row.child = r.child
                    /\ sponsorships' = sponsorships \cup {row}

C24_CheckThenAct == [][C24_Step]_vars

C24_Witness ==
    /\ response.view = "child_sponsorship"
    /\ response.status = "redirect_success"
    /\ \E a, b \in sponsorships :
          a.id # b.id /\ a.sponsor = b.sponsor /\ a.child = b.child

\* C25 as stated: a SponsorDeparture row is added only by a sponsor_departure
\* request that finds the sponsor with is_departed "No" and leaves it "Yes"
\* (so a sponsor gets at most one row between two reinstatements), and a row
\* once committed stays as it is.
C25_Step ==
    /\ \A row \in departures' \ departures :
          /\ row.id \notin {old.id : old \in departures}
          /\ response'.view = "sponsor_departure"
          /\ sponsors[row.sponsor].is_departed = "No"
          /\ sponsors'[row.sponsor].is_departed = "Yes"
    /\ departures \subseteq departures'

C25_OneRowPerDeparture == [][C25_Step]_vars

\* C26: while a row of (s, c) is left over from a terminated sponsorship (the
\* row exists, c.is_sponsored is "No"), a child_sponsorship request for (s, c)
\* ends in the duplicate notice and leaves the flag "No" and the rows as they
\* are; a request for (s, c) succeeds only in a state without a row of the
\* pair, and rows go away only by delete_child_sponsorship.
C26_Stale(s, c) ==
    /\ c \in DOMAIN children
    /\ children[c].is_sponsored = "No"
    /\ \E row \in sponsorships : row.sponsor = s /\ row.child = c

C26_Step ==
    /\ ( /\ response'.view = "child_sponsorship"
         /\ response'.sponsor # 0
         /\ C26_Stale(response'.sponsor, response'.child) )
       => /\ response'.status = "duplicate_notice"
          /\ children'[response'.child].is_sponsored = "No"
          /\ sponsorships' = sponsorships
    /\ ( response'.view = "child_sponsorship" /\ response'.status = "redirect_success" )
       => ~\E row \in sponsorships :
              row.sponsor = response'.sponsor /\ row.child = response'.child
    /\ ~(sponsorships \subseteq sponsorships')
       => response'.view = "delete_child_sponsorship"

C26_StaleRowBlocks == [][C26_Step]_vars

\* The pair was linked, the row deleted, and the pair linked again: row 2 is
\* the only row.
C26_Witness ==
    /\ response.view = "child_sponsorship"
    /\ response.status = "redirect_success"
    /\ last_id.sponsorship = 2
    /\ \E row \in sponsorships :
          /\ sponsorships = {row}
          /\ row.id = 2 /\ row.sponsor = response.sponsor /\ row.child = response.child
    /\ children[response.child].is_sponsored = "Yes"

\* C27 as stated: when a child_sponsorship request in flight commits, the
\* child's row as committed by then changes in is_sponsored only, so what
\* other requests have committed to the child since the request read it stays.
C27_Step ==
    \A r \in inflight \ inflight' :
        response'.status = "redirect_success" =>
            children' = [children EXCEPT ![r.child].is_sponsored = "Yes"]

C27_NoLostUpdate == [][C27_Step]_vars

====
